---- MODULE Spec2Model ----
(***************************************************************************)
(* Model of the application presence checker (package `checker`):          *)
(*   selector.select_endpoint_sequence  - which endpoints to try           *)
(*   run_checker.check_row_status       - the per-row resolution loop      *)
(*   http_client.HttpClient.get_json    - one GET with bounded retries     *)
(*   run_checker.run_checker            - the batch over the input rows    *)
(* Text is modelled as a sequence of one-character strings wherever the    *)
(* code inspects, trims or slices it (row fields, response bodies, error   *)
(* messages); a fixed literal that the code only concatenates (an endpoint *)
(* path, the fixed part of a note) is one element of such a sequence.      *)
(***************************************************************************)
EXTENDS Integers, Sequences, FiniteSets, TLC

VARIABLES
    pc,            \* where check_row_status is: "idle", "loop", "paused",
                   \* "calling", "done", "raised"
    row,           \* its argument row
    default_year,  \* its argument default_year
    sequence,      \* the endpoint sequence being walked
    idx,           \* position of the loop in sequence (1-based)
    base_result,   \* the result dictionary
    response,      \* status, content_type, body of the latest get_json call
    calls,         \* the get_json calls made so far for this row, in order
    sleeps,        \* the time.sleep(RATE_LIMIT_MS / 1000.0) pauses taken so far
    probe,         \* a parsed JSON value and the is_empty flag computed from it
    previous,      \* the preceding invocation of check_row_status and its result
    http_pc,       \* where get_json is: "idle", "trying", "returned", "raised"
    attempt,       \* get_json's loop variable
    attempts,      \* how each HTTP attempt of this get_json call ended, in order
    outcome,       \* the triple get_json returned
    waits,         \* the back-off pauses get_json took, in milliseconds
    run_pc,        \* where run_checker is: "idle", "login", "load", "rows",
                   \* "complete", "dry", "interrupted", "fatal", "crashed", "exited"
    args,          \* the parsed command line
    settings,      \* the settings load_settings returned
    client,        \* the HttpClient: created or not, its Authorization header,
                   \* how many times close() was called
    wire,          \* the pauses and HTTP requests of the run so far, in order
    input_rows,    \* the rows load_input_data returned
    results,       \* run_checker's results list
    report         \* the CSV report written, if any

rowvars == <<pc, row, default_year, sequence, idx, base_result, response, calls, sleeps>>
getvars == <<http_pc, attempt, attempts, outcome, waits>>
batchvars == <<run_pc, args, settings, client, wire, input_rows, results, report>>

vars == <<rowvars, probe, previous, getvars, batchvars>>

----------------------------------------------------------------------------
(* Bounds of the model *)

\* longest generated CUSTOMER_TRN text
MaxLen == 2
\* longest candidate sequence handed to the resolution loop in SpecSeq
MaxSeq == 3

----------------------------------------------------------------------------
(* Python text helpers *)

\* characters str.strip() removes
Whitespace == {" ", "\t", "\n"}

RECURSIVE LStrip(_)
LStrip(s) == IF s # <<>> /\ Head(s) \in Whitespace THEN LStrip(Tail(s)) ELSE s

RECURSIVE RStrip(_)
RStrip(s) ==
    IF s # <<>> /\ s[Len(s)] \in Whitespace THEN RStrip(SubSeq(s, 1, Len(s) - 1)) ELSE s

\* str.strip()
Strip(s) == RStrip(LStrip(s))

\* s[:n]
Take(s, n) == SubSeq(s, 1, IF Len(s) < n THEN Len(s) ELSE n)

\* n copies of the character c
Repeat(c, n) == [i \in 1..n |-> c]

Digit(d) == CASE d = 0 -> "0" [] d = 1 -> "1" [] d = 2 -> "2" [] d = 3 -> "3"
              [] d = 4 -> "4" [] d = 5 -> "5" [] d = 6 -> "6" [] d = 7 -> "7"
              [] d = 8 -> "8" [] d = 9 -> "9"

\* str(n) / f"{n}" of a non-negative integer
RECURSIVE IntToStr(_)
IntToStr(n) == IF n < 10 THEN <<Digit(n)>> ELSE IntToStr(n \div 10) \o <<Digit(n % 10)>>

\* all texts over alphabet A of length at most n
SeqsUpTo(A, n) == UNION {[1..k -> A] : k \in 0..n}

----------------------------------------------------------------------------
(* Python values held in a row dictionary *)

\* the key is missing from the dictionary
PyAbsent == [k |-> "absent", s |-> <<>>]
\* the key maps to None
PyNone == [k |-> "None", s |-> <<>>]
\* the key maps to float('nan') (pandas' blank cell)
PyNaN == [k |-> "nan", s |-> <<>>]
\* the key maps to the str s
PyStr(s) == [k |-> "str", s |-> s]

\* d.get(key)
DictGet(v) == IF v = PyAbsent THEN PyNone ELSE v
\* d.get(key, '')
DictGetOrEmpty(v) == IF v = PyAbsent THEN PyStr(<<>>) ELSE v
\* bool(v)
Truthy(v) == \/ v.k = "nan"
             \/ v.k = "str" /\ v.s # <<>>
\* v or ''
OrEmpty(v) == IF Truthy(v) THEN v ELSE PyStr(<<>>)
\* str(v)
PyToStr(v) == CASE v.k = "str" -> v.s
                [] v.k = "nan" -> <<"n", "a", "n">>
                [] v.k = "None" -> <<"N", "o", "n", "e">>

----------------------------------------------------------------------------
(* selector.select_endpoint_sequence *)

ByYearTRN_v2 == "/api/v2/Applications/ByYearTRN"
ByYearTRN_v1 == "/api/v1/Applications/ByYearTRN"
ByTRN_v2 == "/api/v2/Applications/ByTRN"
ByTRN_v1 == "/api/v1/Applications/ByTRN"

\* one (path, params) tuple; params is the dict as its ordered (key, value) items
Candidate(path, params) == [path |-> path, params |-> params]

\* slip: the TRN is taken without .strip()
customer_trn_NoStrip(r) == PyToStr(OrEmpty(DictGet(r.CUSTOMER_TRN)))

\* slip: without a TRN the registration number is taken as the identifier
customer_trn_OrRegistration(r) ==
    IF Strip(PyToStr(OrEmpty(DictGet(r.CUSTOMER_TRN)))) # <<>>
    THEN Strip(PyToStr(OrEmpty(DictGet(r.CUSTOMER_TRN))))
    ELSE Strip(PyToStr(OrEmpty(DictGet(r.REGISTRATION_NO))))

\* customer_trn = str(row.get('CUSTOMER_TRN') or '').strip()
customer_trn(r) == Strip(PyToStr(OrEmpty(DictGet(r.CUSTOMER_TRN))))

\* a row's ACADEMIC_YEAR text, stripped ('' when the cell holds no text)
YearText(r) ==
    IF r.ACADEMIC_YEAR.k \in {"str", "nan"} THEN Strip(PyToStr(r.ACADEMIC_YEAR)) ELSE <<>>

Digits == {"0", "1", "2", "3", "4", "5", "6", "7", "8", "9"}

\* the row's year is usable: non-empty after trimming and decimal digits only
ValidYear(r) == YearText(r) # <<>> /\ \A i \in DOMAIN YearText(r) : YearText(r)[i] \in Digits

\* variant: the row's year is used when it is valid
resolved_year_FromRow(r, dy) == IF ValidYear(r) THEN YearText(r) ELSE dy

\* slip: the row's year is used whenever the cell holds anything, unvalidated
resolved_year_Unvalidated(r, dy) == IF YearText(r) # <<>> THEN YearText(r) ELSE dy

\* year = default_year
resolved_year(r, dy) == dy

\* variant: all four endpoint variants, newest and most specific first
select_endpoint_sequence_FourVariants(r, dy) ==
    IF customer_trn(r) = <<>>
    THEN <<>>
    ELSE << Candidate(ByYearTRN_v2, << <<"trn", customer_trn(r)>>, <<"year", dy>> >>),
            Candidate(ByYearTRN_v1, << <<"trn", customer_trn(r)>>, <<"year", dy>> >>),
            Candidate(ByTRN_v2, << <<"trn", customer_trn(r)>> >>),
            Candidate(ByTRN_v1, << <<"trn", customer_trn(r)>> >>) >>

\* slip: the year is sent to the ByTRN endpoint
select_endpoint_sequence_YearOnByTRN(r, dy) ==
    IF customer_trn(r) = <<>>
    THEN <<>>
    ELSE << Candidate(ByTRN_v2,
                      << <<"trn", customer_trn(r)>>, <<"year", resolved_year(r, dy)>> >>) >>

\* slip: a row that was checked just before is answered with no candidates
select_endpoint_sequence_OncePerRow(r, dy) ==
    IF customer_trn(r) = <<>> \/ (previous # <<>> /\ previous[1].row = r)
    THEN <<>>
    ELSE << Candidate(ByYearTRN_v2,
                      << <<"trn", customer_trn(r)>>, <<"year", resolved_year(r, dy)>> >>) >>

\* select_endpoint_sequence(row, default_year)
select_endpoint_sequence(r, dy) ==
    IF customer_trn(r) = <<>>
    THEN <<>>
    ELSE << Candidate(ByYearTRN_v2,
                      << <<"trn", customer_trn(r)>>, <<"year", resolved_year(r, dy)>> >>) >>

----------------------------------------------------------------------------
(* urllib.parse.urlencode, on the characters the model's texts are made of *)

Unreserved ==
    {"0", "1", "2", "3", "4", "5", "6", "7", "8", "9",
     "a", "b", "c", "d", "e", "f", "g", "h", "i", "j", "k", "l", "m",
     "n", "o", "p", "q", "r", "s", "t", "u", "v", "w", "x", "y", "z",
     "A", "B", "C", "D", "E", "F", "G", "H", "I", "J", "K", "L", "M",
     "N", "O", "P", "Q", "R", "S", "T", "U", "V", "W", "X", "Y", "Z",
     "_", ".", "-", "~"}

\* quote_plus of one character
QuoteChar(c) ==
    CASE c \in Unreserved -> <<c>>
      [] c = " " -> <<"+">>
      [] c = "&" -> <<"%", "2", "6">>
      [] c = "=" -> <<"%", "3", "D">>
      [] c = "\t" -> <<"%", "0", "9">>
      [] c = "\n" -> <<"%", "0", "A">>

RECURSIVE QuotePlus(_)
QuotePlus(s) == IF s = <<>> THEN <<>> ELSE QuoteChar(Head(s)) \o QuotePlus(Tail(s))

\* urlencode(params): key=value pairs joined by '&', in the dict's order
RECURSIVE urlencode(_)
urlencode(params) ==
    IF params = <<>> THEN <<>>
    ELSE <<Head(params)[1], "=">> \o QuotePlus(Head(params)[2])
         \o (IF Tail(params) = <<>> THEN <<>> ELSE <<"&">> \o urlencode(Tail(params)))

\* f"{path}?{param_str}"
EndpointUsedOf(path, params) == <<path, "?">> \o urlencode(params)

----------------------------------------------------------------------------
(* json.loads, on the response bodies of the model *)

JNull == [t |-> "null", keys |-> <<>>, items |-> <<>>]
JNum == [t |-> "number", keys |-> <<>>, items |-> <<>>]
JStr == [t |-> "string", keys |-> <<>>, items |-> <<>>]
JBool == [t |-> "bool", keys |-> <<>>, items |-> <<>>]
JList(items) == [t |-> "list", keys |-> <<>>, items |-> items]
JDict(keys, items) == [t |-> "dict", keys |-> keys, items |-> items]

Body_null == <<"n", "u", "l", "l">>
Body_list0 == <<"[", "]">>
Body_dict0 == <<"{", "}">>
\* {"a": []}
Body_wrapped0 == <<"{", "\"", "a", "\"", ":", " ", "[", "]", "}">>
\* {"id":42}
Body_id42 == <<"{", "\"", "i", "d", "\"", ":", "4", "2", "}">>
\* {"id":42,"a":[]}
Body_id42wrapped0 == <<"{", "\"", "i", "d", "\"", ":", "4", "2", ",",
                       "\"", "a", "\"", ":", "[", "]", "}">>
Body_list1 == <<"[", "1", "]">>
Body_NaN == <<"N", "a", "N">>
Body_notjson == <<"n", "o", "t", "-", "j", "s", "o", "n", "{">>
Body_blank == <<>>
Body_Unauthorized == <<"U", "n", "a", "u", "t", "h", "o", "r", "i", "z", "e", "d">>
\* {a}
Body_badkey == <<"{", "a", "}">>
\* 201 characters: 199 times 'x', a space, 'y'
Body_long == Repeat("x", 199) \o <<" ", "y">>
\* padded text: "  Unauthorized \n"
Body_padded == <<" ", " ">> \o Body_Unauthorized \o <<" ", "\n">>
\* well-formed JSON, arrays nested as deep as the interpreter's recursion limit
Body_deep == Repeat("[", 1000) \o Repeat("]", 1000)

Bodies == {Body_null, Body_list0, Body_dict0, Body_wrapped0, Body_id42,
           Body_id42wrapped0, Body_list1, Body_NaN, Body_notjson, Body_blank,
           Body_Unauthorized, Body_badkey, Body_long, Body_padded, Body_deep}

\* str(e) of the JSONDecodeError raised where a value should start: the 0-based
\* offset `at` of line 1, "Expecting value: line 1 column <at+1> (char <at>)"
Msg_ExpectingValue(at) ==
    <<"E", "x", "p", "e", "c", "t", "i", "n", "g", " ", "v", "a", "l", "u", "e", ":",
      " ", "l", "i", "n", "e", " ", "1", " ", "c", "o", "l", "u", "m", "n", " ">>
    \o IntToStr(at + 1) \o <<" ", "(", "c", "h", "a", "r", " ">> \o IntToStr(at) \o <<")">>
\* str(e) of the JSONDecodeError raised at an unquoted object key (75 characters)
Msg_ExpectingPropertyName ==
    <<"E", "x", "p", "e", "c", "t", "i", "n", "g", " ", "p", "r", "o", "p", "e", "r",
      "t", "y", " ", "n", "a", "m", "e", " ", "e", "n", "c", "l", "o", "s", "e", "d",
      " ", "i", "n", " ", "d", "o", "u", "b", "l", "e", " ", "q", "u", "o", "t", "e",
      "s", ":", " ", "l", "i", "n", "e", " ", "1", " ", "c", "o", "l", "u", "m", "n",
      " ", "2", " ", "(", "c", "h", "a", "r", " ", "1", ")">>

Parsed(data) == [ok |-> TRUE, data |-> data, msg |-> <<>>, exc |-> "-"]
DecodeError(msg) == [ok |-> FALSE, data |-> JNull, msg |-> msg, exc |-> "JSONDecodeError"]
\* str(e) of the RecursionError the decoder raises on arrays nested too deep
Msg_RecursionDepth ==
    <<"maximum recursion depth exceeded while decoding a JSON array from a unicode string">>
TooDeep == [ok |-> FALSE, data |-> JNull, msg |-> Msg_RecursionDepth,
            exc |-> "RecursionError"]

\* json.loads on each body of the model: the parsed value, or the exception raised
JsonTable ==
    [body \in Bodies |->
        CASE body = Body_null -> Parsed(JNull)
          [] body = Body_list0 -> Parsed(JList(<<>>))
          [] body = Body_dict0 -> Parsed(JDict(<<>>, <<>>))
          [] body = Body_wrapped0 -> Parsed(JDict(<<"a">>, <<JList(<<>>)>>))
          [] body = Body_id42 -> Parsed(JDict(<<"id">>, <<JNum>>))
          [] body = Body_id42wrapped0 -> Parsed(JDict(<<"id", "a">>, <<JNum, JList(<<>>)>>))
          [] body = Body_list1 -> Parsed(JList(<<JNum>>))
          [] body = Body_NaN -> Parsed(JNum)
          [] body = Body_notjson -> DecodeError(Msg_ExpectingValue(0))
          [] body = Body_blank -> DecodeError(Msg_ExpectingValue(0))
          [] body = Body_Unauthorized -> DecodeError(Msg_ExpectingValue(0))
          [] body = Body_badkey -> DecodeError(Msg_ExpectingPropertyName)
          [] body = Body_long -> DecodeError(Msg_ExpectingValue(0))
          [] body = Body_padded -> DecodeError(Msg_ExpectingValue(2))
          [] body = Body_deep -> TooDeep]

\* data = json.loads(body)
JsonLoads(body) == JsonTable[body]

----------------------------------------------------------------------------
(* run_checker.check_row_status: the data it builds *)

RATE_LIMIT_MS == 250
\* body[:200]
SnippetLen == 200
\* str(e)[:50]
JsonErrLen == 50

\* the values of base_result['Present']
PresentNone == "None"
PresentTrue == "True"
PresentFalse == "False"

NO_STRATEGY == <<"NO_STRATEGY">>
Note_NoIdentifier == <<"No valid identifier (CUSTOMER_TRN) found">>
Note_Present == <<"Present (200 OK with data)">>
Note_Absent == <<"Absent (404 on all endpoints)">>
\* f"Error: Invalid JSON response - {str(e)[:50]}"
Note_InvalidJson(msg) == <<"Error: Invalid JSON response - ">> \o Take(msg, JsonErrLen)
\* f"Error ({status}): {body_snippet}"
Note_Error(status, snippet) == <<"Error (">> \o IntToStr(status) \o <<"): ">> \o snippet

\* slip: Present starts as False
initial_result_PresentFalse(r, dy, now) ==
    [InputRow |-> r.InputRow,
     TRN |-> DictGetOrEmpty(r.CUSTOMER_TRN),
     ApplicationNumber |-> DictGetOrEmpty(r.REGISTRATION_NO),
     YearChecked |-> dy,
     EndpointUsed |-> NO_STRATEGY,
     HTTPStatus |-> 0,
     Present |-> PresentFalse,
     Note |-> Note_NoIdentifier,
     CheckedAt |-> now]

\* slip: the clock reading also goes into the note
initial_result_NoteStamped(r, dy, now) ==
    [InputRow |-> r.InputRow,
     TRN |-> DictGetOrEmpty(r.CUSTOMER_TRN),
     ApplicationNumber |-> DictGetOrEmpty(r.REGISTRATION_NO),
     YearChecked |-> dy,
     EndpointUsed |-> NO_STRATEGY,
     HTTPStatus |-> 0,
     Present |-> PresentNone,
     Note |-> Note_NoIdentifier \o IntToStr(now),
     CheckedAt |-> now]

\* slip: YearChecked reports the row's own year when it has one
initial_result_YearFromRow(r, dy, now) ==
    [InputRow |-> r.InputRow,
     TRN |-> DictGetOrEmpty(r.CUSTOMER_TRN),
     ApplicationNumber |-> DictGetOrEmpty(r.REGISTRATION_NO),
     YearChecked |-> IF ValidYear(r) THEN YearText(r) ELSE dy,
     EndpointUsed |-> NO_STRATEGY,
     HTTPStatus |-> 0,
     Present |-> PresentNone,
     Note |-> Note_NoIdentifier,
     CheckedAt |-> now]

\* base_result as first built; now is the reading of datetime.now()
initial_result(r, dy, now) ==
    [InputRow |-> r.InputRow,
     TRN |-> DictGetOrEmpty(r.CUSTOMER_TRN),
     ApplicationNumber |-> DictGetOrEmpty(r.REGISTRATION_NO),
     YearChecked |-> dy,
     EndpointUsed |-> NO_STRATEGY,
     HTTPStatus |-> 0,
     Present |-> PresentNone,
     Note |-> Note_NoIdentifier,
     CheckedAt |-> now]

\* slip: the body is stripped before it is cut
body_snippet_StripFirst(body) == Take(Strip(body), SnippetLen)

\* body_snippet = body[:200].strip()
body_snippet(body) == Strip(Take(body, SnippetLen))

\* slip: an object counts as empty only when all of its values are empty arrays
is_empty_AllValues(data) ==
    \/ data.t = "null"
    \/ data.t = "list" /\ Len(data.items) = 0
    \/ data.t = "dict" /\ \A i \in 1..Len(data.items) :
                             data.items[i].t = "list" /\ Len(data.items[i].items) = 0

\* the is_empty flag computed from the parsed data
is_empty(data) ==
    \/ data.t = "null"
    \/ data.t = "list" /\ Len(data.items) = 0
    \/ data.t = "dict" /\ Len(data.items) = 0
    \/ data.t = "dict" /\ \E i \in 1..Len(data.items) :
                             data.items[i].t = "list" /\ Len(data.items[i].items) = 0

\* except (json.JSONDecodeError, ValueError): the exceptions of json.loads that the
\* handler catches (JSONDecodeError is a ValueError; RecursionError is a RuntimeError)
Caught(exc) == exc \in {"JSONDecodeError", "ValueError"}

\* slip: a 200 whose body does not parse is taken as an empty result
Classify_ParseErrorIsEmpty(status, body) ==
    CASE status = 200 /\ ~JsonLoads(body).ok /\ ~Caught(JsonLoads(body).exc) -> "raise"
      [] status = 200 /\ ~JsonLoads(body).ok /\ Caught(JsonLoads(body).exc) -> "empty"
      [] status = 200 /\ JsonLoads(body).ok /\ is_empty(JsonLoads(body).data) -> "empty"
      [] status = 200 /\ JsonLoads(body).ok /\ ~is_empty(JsonLoads(body).data) -> "present"
      [] status = 404 -> "not_found"
      [] OTHER -> "error"

\* which branch of the status handling one response takes
Classify(status, body) ==
    CASE status = 200 /\ ~JsonLoads(body).ok /\ ~Caught(JsonLoads(body).exc) -> "raise"
      [] status = 200 /\ ~JsonLoads(body).ok /\ Caught(JsonLoads(body).exc) -> "invalid_json"
      [] status = 200 /\ JsonLoads(body).ok /\ is_empty(JsonLoads(body).data) -> "empty"
      [] status = 200 /\ JsonLoads(body).ok /\ ~is_empty(JsonLoads(body).data) -> "present"
      [] status = 404 -> "not_found"
      [] OTHER -> "error"

\* slip: an empty 200 ends the loop
Returns_EmptyStops(kind) == kind \in {"present", "invalid_json", "error", "empty"}

\* slip: the error branch falls through to the next candidate
Returns_ErrorContinues(kind) == kind \in {"present", "invalid_json"}

\* the branches that end in `return base_result`; the others end in `continue`
Returns(kind) == kind \in {"present", "invalid_json", "error"}

\* slip: only the first call of a row is recorded
Recorded_FirstCallOnly(br, cand, status) ==
    IF br.EndpointUsed = NO_STRATEGY
    THEN [br EXCEPT !.EndpointUsed = EndpointUsedOf(cand.path, cand.params),
                    !.HTTPStatus = status]
    ELSE br

\* base_result after EndpointUsed and HTTPStatus are recorded
Recorded(br, cand, status) ==
    [br EXCEPT !.EndpointUsed = EndpointUsedOf(cand.path, cand.params),
               !.HTTPStatus = status]

\* slip: an empty 200 is taken for data, and the loop goes on
Handled_EmptyIsPresent(br, kind, status, body) ==
    CASE kind \in {"present", "empty"} ->
           [br EXCEPT !.Present = PresentTrue, !.Note = Note_Present]
      [] kind = "invalid_json" ->
           [br EXCEPT !.Present = PresentFalse,
                      !.Note = Note_InvalidJson(JsonLoads(body).msg)]
      [] kind = "error" ->
           [br EXCEPT !.Present = PresentFalse,
                      !.Note = Note_Error(status, body_snippet(body))]
      [] OTHER -> br

\* slip: the two error branches leave Present as None
Handled_NoneOnError(br, kind, status, body) ==
    CASE kind = "present" ->
           [br EXCEPT !.Present = PresentTrue, !.Note = Note_Present]
      [] kind = "invalid_json" ->
           [br EXCEPT !.Note = Note_InvalidJson(JsonLoads(body).msg)]
      [] kind = "error" ->
           [br EXCEPT !.Note = Note_Error(status, body_snippet(body))]
      [] OTHER -> br

\* base_result after the branch `kind` has handled the response
Handled(br, kind, status, body) ==
    CASE kind = "present" ->
           [br EXCEPT !.Present = PresentTrue, !.Note = Note_Present]
      [] kind = "invalid_json" ->
           [br EXCEPT !.Present = PresentFalse,
                      !.Note = Note_InvalidJson(JsonLoads(body).msg)]
      [] kind = "error" ->
           [br EXCEPT !.Present = PresentFalse,
                      !.Note = Note_Error(status, body_snippet(body))]
      [] OTHER -> br

\* slip: STEP 4 leaves the result as the loop left it
Exhausted_NoVerdict(br) == br

\* STEP 4, after the loop
Exhausted(br) ==
    IF br.Present = PresentNone
    THEN [br EXCEPT !.Present = PresentFalse, !.Note = Note_Absent]
    ELSE br

----------------------------------------------------------------------------
(* Inputs: rows as the loader produces them, settings, transport responses *)

\* number of distinct clock readings datetime.now() can give
MaxTime == 2

TrnAlphabet == {" ", "7", "&"}
Trn_100379893 == <<"1", "0", "0", "3", "7", "9", "8", "9", "3">>
TrnValues ==
    {PyAbsent, PyNone, PyNaN, PyStr(Trn_100379893)}
    \cup {PyStr(s) : s \in SeqsUpTo(TrnAlphabet, MaxLen)}

YearValues ==
    {PyAbsent, PyNone, PyNaN,
     PyStr(<<>>), PyStr(<<" ">>),
     PyStr(<<"n", "a", "n">>), PyStr(<<"N", "a", "N">>),
     PyStr(<<"2", "0", "2", "5", ".", "0">>),
     PyStr(<<"2", "0", "2", "4">>), PyStr(<<" ", "2", "0", "2", "4", " ">>)}

RegValues == {PyAbsent, PyStr(<<"S", "L", "B", "-", "1", "5", "6", "4", "3", "9">>)}

Rows == [CUSTOMER_TRN : TrnValues, ACADEMIC_YEAR : YearValues,
         REGISTRATION_NO : RegValues, InputRow : {1}]

\* the rows check_row_status is run on: the year column does not reach it
CheckedRows ==
    {r \in Rows : r.ACADEMIC_YEAR \in {PyAbsent, PyNaN, PyStr(<<"2", "0", "2", "4">>)}}

\* settings.check_year
DefaultYears == {<<"2", "0", "2", "5">>, <<"2", "0", "2", "6">>}

Times == 1..MaxTime

\* "Network error: ConnectTimeout: timed out"
Body_network ==
    <<"N", "e", "t", "w", "o", "r", "k", " ", "e", "r", "r", "o", "r", ":", " ",
      "C", "o", "n", "n", "e", "c", "t", "T", "i", "m", "e", "o", "u", "t", ":", " ",
      "t", "i", "m", "e", "d", " ", "o", "u", "t">>

HttpStatuses == {200, 401, 404, 500}
ContentTypes == {"application/json", ""}

\* the (status, content_type, body) triples client.get_json can return
Responses ==
    {<<0, "", Body_network>>}
    \cup {<<st, ct, body>> : st \in HttpStatuses, ct \in ContentTypes, body \in Bodies}

\* what the transport answered, as seen from outside check_row_status: the status
\* and, for a 200, whether the body is JSON and whether that JSON holds data (JSON
\* nested beyond what json.loads can decode is a class of its own)
BodyClass(status, body) ==
    IF status # 200 THEN "-"
    ELSE IF JsonLoads(body).exc = "RecursionError" THEN "too_deep"
    ELSE IF ~JsonLoads(body).ok THEN "unparseable"
    ELSE LET d == JsonLoads(body).data IN
         IF \/ d.t = "null"
            \/ d.t \in {"list", "dict"} /\ d.items = <<>>
            \/ d.t = "dict" /\ \E i \in DOMAIN d.items : d.items[i] = JList(<<>>)
         THEN "empty" ELSE "data"

\* most items in a generated JSON array or object
MaxItems == 2

KeyNames == <<"a", "b", "c", "d">>

\* the values json.loads can return: scalars, and arrays and objects of up to
\* MaxItems scalars, empty containers and one-element arrays
JsonScalars == {JNull, JNum, JStr, JBool}
JsonElements == JsonScalars \cup {JList(<<>>), JDict(<<>>, <<>>), JList(<<JNum>>)}
JsonValues ==
    JsonScalars
    \cup {JList(items) : items \in SeqsUpTo(JsonElements, MaxItems)}
    \cup {JDict(SubSeq(KeyNames, 1, Len(items)), items) :
             items \in SeqsUpTo(JsonElements, MaxItems)}

----------------------------------------------------------------------------
(* State *)

NoResponse == <<0, "", <<>> >>

\* before parse_arguments, load_settings and HttpClient(settings)
NoArgs == [dry_run |-> FALSE]
NoSettings == [check_year |-> <<>>, token |-> "", auth_email |-> "", auth_password |-> ""]
NoClient == [created |-> FALSE, authorization |-> <<>>, closed |-> 0]

NoRow == [CUSTOMER_TRN |-> PyAbsent, ACADEMIC_YEAR |-> PyAbsent,
          REGISTRATION_NO |-> PyAbsent, InputRow |-> 0]

Init ==
    /\ pc = "idle"
    /\ row = NoRow
    /\ default_year = <<>>
    /\ sequence = <<>>
    /\ idx = 0
    /\ base_result = initial_result(NoRow, <<>>, 0)
    /\ response = NoResponse
    /\ calls = <<>>
    /\ sleeps = 0
    /\ probe = <<>>
    /\ previous = <<>>
    /\ http_pc = "idle"
    /\ attempt = 0
    /\ attempts = <<>>
    /\ outcome = NoResponse
    /\ waits = <<>>
    /\ run_pc = "idle"
    /\ args = NoArgs
    /\ settings = NoSettings
    /\ client = NoClient
    /\ wire = <<>>
    /\ input_rows = <<>>
    /\ results = <<>>
    /\ report = <<>>

----------------------------------------------------------------------------
(* run_checker.check_row_status: the steps *)

\* STEP 1 and STEP 2 on the sequence seq, up to the loop's first iteration
Begin(r, dy, now, seq) ==
    /\ pc = "idle"
    /\ row' = r
    /\ default_year' = dy
    /\ sequence' = seq
    /\ base_result' = initial_result(r, dy, now)
    /\ response' = NoResponse
    /\ calls' = <<>>
    /\ sleeps' = 0
    /\ idx' = 1
    /\ pc' = IF seq = <<>> THEN "done" ELSE "loop"
    /\ UNCHANGED <<probe, previous, getvars, batchvars>>

\* the call check_row_status(client, row, default_year)
check_row_status(r, dy, now) == Begin(r, dy, now, select_endpoint_sequence(r, dy))

\* the same call with select_endpoint_sequence replaced by a stub returning seq
check_row_status_on(r, dy, now, seq) == Begin(r, dy, now, seq)

\* slip: the first candidate is tried once more before the loop moves on
Continue_RetryFirst(br) ==
    IF idx = 1 /\ calls = <<>>
    THEN idx' = idx /\ pc' = "loop" /\ base_result' = br
    ELSE /\ idx' = idx + 1
         /\ IF idx < Len(sequence)
            THEN pc' = "loop" /\ base_result' = br
            ELSE pc' = "done" /\ base_result' = Exhausted(br)

\* `continue`: on to the next candidate, or past the loop into STEP 4
Continue(br) ==
    /\ idx' = idx + 1
    /\ IF idx < Len(sequence)
       THEN pc' = "loop" /\ base_result' = br
       ELSE pc' = "done" /\ base_result' = Exhausted(br)

\* slip: the skipped candidate is recorded as if it had been called
Skipped_Recorded(br, cand) == Recorded(br, cand, 0)

\* base_result after `if not params: continue` on the candidate cand
Skipped(br, cand) == br

\* `if not params: continue`
SkipCandidate ==
    /\ pc = "loop"
    /\ sequence[idx].params = <<>>
    /\ Continue(Skipped(base_result, sequence[idx]))
    /\ UNCHANGED <<row, default_year, sequence, response, calls, sleeps>>
    /\ UNCHANGED <<probe, previous, getvars, batchvars>>

\* the answer (status, ct, body) of get_json recorded and handled: lines 149-218
Handle(status, ct, body) ==
    LET cand == sequence[idx]
        kind == Classify(status, body)
        rec == Recorded(base_result, cand, status)
    IN /\ cand.params # <<>>
       /\ response' = <<status, ct, body>>
       /\ calls' = Append(calls, [path |-> cand.path, params |-> cand.params,
                                  status |-> status,
                                  body |-> BodyClass(status, body)])
       /\ IF kind = "raise"
          THEN /\ base_result' = rec
               /\ pc' = "raised"
               /\ idx' = idx
          ELSE IF Returns(kind)
          THEN /\ base_result' = Handled(rec, kind, status, body)
               /\ pc' = "done"
               /\ idx' = idx
          ELSE Continue(Handled(rec, kind, status, body))
       /\ UNCHANGED <<row, default_year, sequence>>

\* one iteration in one step: the pause, the get_json call answering (status, ct,
\* body), and the handling of that answer
Attempt(status, ct, body) ==
    /\ pc = "loop"
    /\ sleeps' = sleeps + 1
    /\ Handle(status, ct, body)
    /\ UNCHANGED <<probe, previous, getvars, batchvars>>

\* the responses that take each branch
ResponsesOf ==
    [kind \in {"present", "empty", "invalid_json", "not_found", "error", "raise"} |->
        {resp \in Responses : Classify(resp[1], resp[3]) = kind}]

\* status 200, the body parses and holds data
Found == \E resp \in ResponsesOf["present"] : Attempt(resp[1], resp[2], resp[3])

\* status 200, the body parses and is empty
EmptyResponse == \E resp \in ResponsesOf["empty"] : Attempt(resp[1], resp[2], resp[3])

\* status 200, the body does not parse
InvalidJson == \E resp \in ResponsesOf["invalid_json"] : Attempt(resp[1], resp[2], resp[3])

\* status 404
NotFound == \E resp \in ResponsesOf["not_found"] : Attempt(resp[1], resp[2], resp[3])

\* any other status, 0 (network failure) included
OtherStatus == \E resp \in ResponsesOf["error"] : Attempt(resp[1], resp[2], resp[3])

\* status 200, json.loads raises an exception the handler does not catch
Uncaught == \E resp \in ResponsesOf["raise"] : Attempt(resp[1], resp[2], resp[3])

\* the frame of check_row_status is left, by `return` or by the exception
Finish ==
    /\ pc \in {"done", "raised"}
    /\ pc' = "idle"
    /\ row' = NoRow
    /\ default_year' = <<>>
    /\ sequence' = <<>>
    /\ idx' = 0
    /\ base_result' = initial_result(NoRow, <<>>, 0)
    /\ response' = NoResponse
    /\ calls' = <<>>
    /\ sleeps' = 0

\* the caller takes the returned record; the next call may start
Return ==
    /\ pc = "done"
    /\ Finish
    /\ UNCHANGED <<probe, previous, getvars, batchvars>>

\* the exception leaves check_row_status for its caller
Propagate ==
    /\ pc = "raised"
    /\ Finish
    /\ UNCHANGED <<probe, previous, getvars, batchvars>>

----------------------------------------------------------------------------
(* Specifications *)

\* check_row_status as the program runs it. select_endpoint_sequence never builds
\* an empty params dict, so the `if not params` guard never holds here.
Next ==
    \/ \E r \in CheckedRows, dy \in DefaultYears, now \in Times :
          check_row_status(r, dy, now)
    \/ Found
    \/ EmptyResponse
    \/ InvalidJson
    \/ NotFound
    \/ OtherStatus
    \/ Uncaught
    \/ Return
    \/ Propagate

Spec == Init /\ [][Next]_vars

\* select_endpoint_sequence alone, applied to every row and default year
Select(r, dy) ==
    /\ pc = "idle"
    /\ pc' = "selected"
    /\ row' = r
    /\ default_year' = dy
    /\ sequence' = select_endpoint_sequence(r, dy)
    /\ UNCHANGED <<idx, base_result, response, calls, sleeps>>
    /\ UNCHANGED <<probe, previous, getvars, batchvars>>

Discard ==
    /\ pc = "selected"
    /\ pc' = "idle"
    /\ row' = NoRow
    /\ default_year' = <<>>
    /\ sequence' = <<>>
    /\ UNCHANGED <<idx, base_result, response, calls, sleeps>>
    /\ UNCHANGED <<probe, previous, getvars, batchvars>>

NextSelect ==
    \/ \E r \in Rows, dy \in DefaultYears : Select(r, dy)
    \/ Discard

SpecSelect == Init /\ [][NextSelect]_vars

\* The resolution loop over any candidate sequence (select_endpoint_sequence
\* stubbed), which is how the loop's fallback and stop conditions are exercised.
TrnOnly == << <<"trn", <<"7", " ", "7">> >> >>
TrnAndYear == << <<"trn", Trn_100379893>>, <<"year", <<"2", "0", "2", "5">> >> >>
CandidatePool ==
    {Candidate(ByYearTRN_v2, TrnAndYear), Candidate(ByTRN_v2, TrnOnly),
     Candidate(ByTRN_v1, <<>>)}
Sequences == SeqsUpTo(CandidatePool, MaxSeq)

SeqRow == [CUSTOMER_TRN |-> PyStr(Trn_100379893), ACADEMIC_YEAR |-> PyAbsent,
           REGISTRATION_NO |-> PyAbsent, InputRow |-> 1]

NextSeq ==
    \/ \E seq \in Sequences : check_row_status_on(SeqRow, <<"2", "0", "2", "5">>, 1, seq)
    \/ SkipCandidate
    \/ Found
    \/ EmptyResponse
    \/ InvalidJson
    \/ NotFound
    \/ OtherStatus
    \/ Uncaught
    \/ Return
    \/ Propagate

SpecSeq == Init /\ [][NextSeq]_vars

\* check_row_status called time after time, the caller keeping the arguments, the
\* transport's answers and the result of the call before
TwiceRows ==
    {[r EXCEPT !.InputRow = n] :
        r \in {c \in CheckedRows :
                  /\ c.CUSTOMER_TRN \in {PyStr(<<>>), PyNaN, PyStr(Trn_100379893)}
                  /\ c.ACADEMIC_YEAR = PyAbsent},
        n \in {1, 2}}

TwiceResponses ==
    {<<200, "application/json", Body_id42>>, <<200, "application/json", Body_list0>>,
     <<200, "application/json", Body_notjson>>, <<404, "", Body_blank>>,
     <<401, "", Body_Unauthorized>>, <<0, "", Body_network>>}

Answer == \E resp \in TwiceResponses : Attempt(resp[1], resp[2], resp[3])

ReturnAndKeep ==
    /\ pc = "done"
    /\ previous' = << [row |-> row, default_year |-> default_year,
                       sequence |-> sequence, calls |-> calls,
                       response |-> response, result |-> base_result] >>
    /\ Finish
    /\ UNCHANGED <<probe, getvars, batchvars>>

NextTwice ==
    \/ \E r \in TwiceRows, dy \in DefaultYears, now \in Times :
          check_row_status(r, dy, now)
    \/ Answer
    \/ ReturnAndKeep

SpecTwice == Init /\ [][NextTwice]_vars

\* The emptiness test of the 200 branch alone, applied to every parsed value
EmptinessTest(data) ==
    /\ probe' = << [data |-> data, is_empty |-> is_empty(data)] >>
    /\ UNCHANGED <<rowvars, previous, getvars, batchvars>>

NextEmpty == \E data \in JsonValues : EmptinessTest(data)

SpecEmpty == Init /\ [][NextEmpty]_vars

----------------------------------------------------------------------------
(* http_client.HttpClient.get_json *)

RETRY_STATUSES == {408, 500, 502, 503, 504}
MAX_RETRIES == 2
\* BACKOFF_FACTOR, 0.5 seconds, in milliseconds
BACKOFF_FACTOR_MS == 500

\* wait_time = BACKOFF_FACTOR * (2 ** attempt), in milliseconds
wait_time(a) == BACKOFF_FACTOR_MS * (2 ^ a)

\* the status codes a server answers with
ServerStatuses == {200, 401, 404, 408, 500, 502, 503, 504}
\* r.text of the answers
ServerTexts == {Body_id42, Body_blank}

\* the requests.RequestException instances self.s.get raises: type name and str(e)
RequestExceptions ==
    {[type |-> <<"C", "o", "n", "n", "e", "c", "t", "T", "i", "m", "e", "o", "u", "t">>,
      msg |-> <<"t", "i", "m", "e", "d", " ", "o", "u", "t">>],
     [type |-> <<"C", "o", "n", "n", "e", "c", "t", "i", "o", "n", "E", "r", "r", "o", "r">>,
      msg |-> <<>>]}

\* slip: a retryable status is handed back as status 0
ResponseTriple_ZeroOnRetryable(status, ct, text) ==
    IF status \in RETRY_STATUSES THEN <<0, ct, text>> ELSE <<status, ct, text>>

\* (r.status_code, r.headers.get("content-type", ""), r.text or "")
ResponseTriple(status, ct, text) == <<status, ct, text>>

\* 0, "", f"Network error: {type(e).__name__}: {e}"
NetworkFailure(e) ==
    <<0, "",
      <<"N", "e", "t", "w", "o", "r", "k", " ", "e", "r", "r", "o", "r", ":", " ">>
      \o e.type \o <<":", " ">> \o e.msg>>

\* 0, "", "Max retries exceeded unexpectedly"
MaxRetriesExceeded == <<0, "", <<"Max retries exceeded unexpectedly">> >>

\* slip: a retryable status is retried on the last attempt too
AfterResponse_RetryOnLast(status, a) ==
    IF status \in RETRY_STATUSES THEN "continue" ELSE "return"

\* slip: a 404 is retried as well
AfterResponse_RetryNotFound(status, a) ==
    IF status \in (RETRY_STATUSES \cup {404}) /\ a < MAX_RETRIES
    THEN "continue" ELSE "return"

\* what follows an answer with this status on attempt a
AfterResponse(status, a) ==
    IF status \in RETRY_STATUSES /\ a < MAX_RETRIES THEN "continue" ELSE "return"

\* slip: the exception of the last attempt is raised again
AfterException_RaiseOnLast(a) == IF a < MAX_RETRIES THEN "continue" ELSE "raise"

\* what follows a requests.RequestException on attempt a
AfterException(a) == IF a < MAX_RETRIES THEN "continue" ELSE "return"

\* the call client.get_json(path, params)
get_json ==
    /\ http_pc = "idle"
    /\ http_pc' = "trying"
    /\ attempt' = 0
    /\ attempts' = <<>>
    /\ outcome' = NoResponse
    /\ waits' = <<>>
    /\ UNCHANGED <<rowvars, probe, previous, batchvars>>

\* one pass of `for attempt in range(MAX_RETRIES + 1)`, which ended as `ended`:
\* `continue` after the back-off pause (past the last attempt the loop is left and
\* the closing return is taken), `return` of the triple, or the exception raised
LoopPass(ended, after, triple) ==
    /\ http_pc = "trying"
    /\ attempts' = Append(attempts, ended)
    /\ CASE after = "continue" ->
              /\ waits' = Append(waits, wait_time(attempt))
              /\ IF attempt + 1 <= MAX_RETRIES
                 THEN /\ attempt' = attempt + 1
                      /\ http_pc' = "trying"
                      /\ outcome' = outcome
                 ELSE /\ attempt' = attempt
                      /\ http_pc' = "returned"
                      /\ outcome' = MaxRetriesExceeded
         [] after = "return" ->
              /\ http_pc' = "returned"
              /\ outcome' = triple
              /\ UNCHANGED <<attempt, waits>>
         [] after = "raise" ->
              /\ http_pc' = "raised"
              /\ UNCHANGED <<attempt, outcome, waits>>
    /\ UNCHANGED <<rowvars, probe, previous, batchvars>>

\* self.s.get returns a response
ServerResponds(status, ct, text) ==
    LoopPass([kind |-> "response", status |-> status],
             AfterResponse(status, attempt), ResponseTriple(status, ct, text))

\* self.s.get raises a requests.RequestException
RequestFails(e) ==
    LoopPass([kind |-> "exception", status |-> 0],
             AfterException(attempt), NetworkFailure(e))

\* the caller takes the returned triple
GetReturn ==
    /\ http_pc = "returned"
    /\ http_pc' = "idle"
    /\ attempt' = 0
    /\ attempts' = <<>>
    /\ outcome' = NoResponse
    /\ waits' = <<>>
    /\ UNCHANGED <<rowvars, probe, previous, batchvars>>

HttpAttempt ==
    \/ \E status \in ServerStatuses, ct \in ContentTypes, text \in ServerTexts :
          ServerResponds(status, ct, text)
    \/ \E e \in RequestExceptions : RequestFails(e)

NextGet ==
    \/ get_json
    \/ HttpAttempt
    \/ GetReturn

SpecGet == Init /\ [][NextGet]_vars

\* every HTTP attempt ends: self.s.get runs with timeout=self.timeout, so it
\* returns or raises, and the back-off sleeps are finite
SpecGetFair == SpecGet /\ WF_vars(HttpAttempt)

----------------------------------------------------------------------------
(* run_checker.run_checker: the batch *)

\* most rows in an input file
MaxRows == 2

\* the input files: load_input_data numbers the rows 1, 2, ... in InputRow
BatchTrns == {PyStr(<<>>), PyStr(Trn_100379893)}
InputRowsOf(trns) ==
    [k \in DOMAIN trns |->
        [CUSTOMER_TRN |-> trns[k], ACADEMIC_YEAR |-> PyAbsent,
         REGISTRATION_NO |-> PyAbsent, InputRow |-> k]]
InputFiles == {InputRowsOf(trns) : trns \in SeqsUpTo(BatchTrns, MaxRows)}

\* what get_json answers during a batch
BatchResponses ==
    {<<200, "application/json", Body_id42>>, <<200, "application/json", Body_list0>>,
     <<200, "application/json", Body_deep>>, <<404, "", Body_blank>>,
     <<401, "", Body_Unauthorized>>, <<0, "", Body_network>>}

\* the text csv.DictWriter writes for a value: '' for None, str(value) otherwise
CsvCell(v) == IF v.k = "None" THEN <<>> ELSE PyToStr(v)

\* the text csv.DictWriter writes for Present
CsvPresent(present) ==
    CASE present = PresentNone -> <<>>
      [] present = PresentTrue -> <<"T", "r", "u", "e">>
      [] present = PresentFalse -> <<"F", "a", "l", "s", "e">>

\* one line of the report, field by field (the quoting of the CSV format left out)
CsvRow(result) ==
    [InputRow |-> IntToStr(result.InputRow),
     TRN |-> CsvCell(result.TRN),
     ApplicationNumber |-> CsvCell(result.ApplicationNumber),
     YearChecked |-> result.YearChecked,
     EndpointUsed |-> result.EndpointUsed,
     HTTPStatus |-> IntToStr(result.HTTPStatus),
     Present |-> CsvPresent(result.Present),
     Note |-> result.Note,
     CheckedAt |-> IntToStr(result.CheckedAt)]

\* slip: the last result is left out of the file
write_results_to_csv_DropLast(res, name) ==
    IF res = <<>> THEN <<>>
    ELSE << [name |-> name,
             rows |-> [k \in 1..(Len(res) - 1) |-> CsvRow(res[k])]] >>

\* write_results_to_csv(results, output_path): the file written, if any
write_results_to_csv(res, name) ==
    IF res = <<>> THEN <<>>
    ELSE << [name |-> name, rows |-> [k \in DOMAIN res |-> CsvRow(res[k])]] >>

\* slip: the new result is put in front of the list
Appended_InFront(res, result) == <<result>> \o res

\* results.append(result)
Appended(res, result) == Append(res, result)

\* SIDSP_TOKEN, when the environment sets it
StaticToken == "token-from-env"

\* "Authorization": f"Bearer {token}"
Bearer(token) == <<"Bearer ", token>>

\* client = HttpClient(settings)
NewClient == [created |-> TRUE, authorization |-> <<>>, closed |-> 0]

\* _set_auth_header(token) on the client c
set_auth_header(c, token) == [c EXCEPT !.authorization = Bearer(token)]

\* run_checker up to the loop over the rows, with SIDSP_TOKEN set and without
\* --dry-run: settings loaded, client created, static token set, input file loaded
run_checker(dy, file) ==
    /\ run_pc = "idle"
    /\ pc = "idle"
    /\ run_pc' = "rows"
    /\ args' = [dry_run |-> FALSE]
    /\ settings' = [check_year |-> dy, token |-> StaticToken,
                    auth_email |-> "", auth_password |-> ""]
    /\ client' = set_auth_header(NewClient, StaticToken)
    /\ wire' = <<>>
    /\ input_rows' = file
    /\ results' = <<>>
    /\ report' = <<>>
    /\ UNCHANGED <<rowvars, probe, previous, getvars>>

\* slip: the rows are taken from the end of the file
RowIndex_FromEnd(n, k) == n - k

\* `for i, row in enumerate(input_rows)`: the place in a file of n rows of the
\* row taken when k rows are done
RowIndex(n, k) == k + 1

\* the loop takes the next row and calls check_row_status on it
ProcessRow(now) ==
    /\ run_pc = "rows"
    /\ Len(results) < Len(input_rows)
    /\ check_row_status(input_rows[RowIndex(Len(input_rows), Len(results))],
                        settings.check_year, now)

\* one iteration of check_row_status's loop during the batch
BatchAnswer ==
    /\ run_pc = "rows"
    /\ \E resp \in BatchResponses : Attempt(resp[1], resp[2], resp[3])

\* result = check_row_status(...) has returned; results.append(result)
AppendResult ==
    /\ run_pc = "rows"
    /\ pc = "done"
    /\ results' = Appended(results, base_result)
    /\ Finish
    /\ UNCHANGED <<run_pc, args, settings, client, wire, input_rows, report>>
    /\ UNCHANGED <<probe, previous, getvars>>

\* sum(1 for r in results if r.get('Present') is True)
total_present(res) == Cardinality({k \in DOMAIN res : res[k].Present = PresentTrue})

\* sum(1 for r in results if r.get('Present') is False)
total_absent(res) == Cardinality({k \in DOMAIN res : res[k].Present = PresentFalse})

\* sum(1 for r in results if r.get('Present') is None or
\*     (r.get('HTTPStatus') not in [200, 404] and r.get('Present') is False))
total_error(res) ==
    Cardinality({k \in DOMAIN res :
                    \/ res[k].Present = PresentNone
                    \/ /\ res[k].HTTPStatus \notin {200, 404}
                       /\ res[k].Present = PresentFalse})

\* STEP 7: the summary lines logged for the results res
Summary(res) ==
    [ev |-> "summary", row |-> Len(res), rows |-> Len(res),
     present |-> total_present(res), absent |-> total_absent(res),
     error |-> total_error(res)]

\* the loop is over: STEP 7 logs the summary, STEP 8 writes the report
WriteReport ==
    /\ run_pc = "rows"
    /\ pc = "idle"
    /\ Len(results) = Len(input_rows)
    /\ wire' = Append(wire, Summary(results))
    /\ report' = write_results_to_csv(results, "results")
    /\ run_pc' = "complete"
    /\ UNCHANGED <<args, settings, client, input_rows, results>>
    /\ UNCHANGED <<rowvars, probe, previous, getvars>>

\* except KeyboardInterrupt: Ctrl+C at any point of the try block; the frames of
\* check_row_status and get_json, if active, are abandoned as they are
Interrupt ==
    /\ run_pc \in {"login", "load", "rows"}
    /\ run_pc' = "interrupted"
    /\ report' = IF results # <<>>
                 THEN write_results_to_csv(results, "results_partial")
                 ELSE <<>>
    /\ UNCHANGED <<args, settings, client, wire, input_rows, results>>
    /\ UNCHANGED <<rowvars, probe, previous, getvars>>

\* except (RuntimeError, FileNotFoundError, ValueError): an exception that left
\* check_row_status ends the run with sys.exit(1)
FatalError ==
    /\ run_pc = "rows"
    /\ pc = "raised"
    /\ run_pc' = "fatal"
    /\ Finish
    /\ UNCHANGED <<args, settings, client, wire, input_rows, results, report>>
    /\ UNCHANGED <<probe, previous, getvars>>

\* slip: the client is closed only when the run was not cut short
Closed_UnlessCutShort(c, how) ==
    IF c.created /\ how \in {"complete", "dry"}
    THEN [c EXCEPT !.closed = c.closed + 1]
    ELSE c

\* finally: if client: client.close(), the try block having ended as `how`
Closed(c, how) == IF c.created THEN [c EXCEPT !.closed = c.closed + 1] ELSE c

\* the exit status of the process, the try block having ended as `how`: 1 from
\* sys.exit(1) and from an exception nothing catches, 0 when run_checker returns
ExitStatus(how) == IF how \in {"fatal", "crashed"} THEN 1 ELSE 0

\* the finally block, on every way out of the try block, and the end of the
\* process with its exit status
Finally ==
    /\ run_pc \in {"complete", "dry", "interrupted", "fatal", "crashed"}
    /\ run_pc' = "exited"
    /\ client' = Closed(client, run_pc)
    /\ wire' = Append(wire, [ev |-> "exit", row |-> Len(input_rows),
                              status |-> ExitStatus(run_pc)])
    /\ UNCHANGED <<args, settings, input_rows, results, report>>
    /\ UNCHANGED <<rowvars, probe, previous, getvars>>

\* the process ends
Exit ==
    /\ run_pc = "exited"
    /\ run_pc' = "idle"
    /\ args' = NoArgs
    /\ settings' = NoSettings
    /\ client' = NoClient
    /\ wire' = <<>>
    /\ http_pc' = "idle"
    /\ attempt' = 0
    /\ attempts' = <<>>
    /\ outcome' = NoResponse
    /\ waits' = <<>>
    /\ input_rows' = <<>>
    /\ results' = <<>>
    /\ report' = <<>>
    /\ pc' = "idle"
    /\ row' = NoRow
    /\ default_year' = <<>>
    /\ sequence' = <<>>
    /\ idx' = 0
    /\ base_result' = initial_result(NoRow, <<>>, 0)
    /\ response' = NoResponse
    /\ calls' = <<>>
    /\ sleeps' = 0
    /\ UNCHANGED <<probe, previous>>

NextBatch ==
    \/ \E dy \in DefaultYears, file \in InputFiles : run_checker(dy, file)
    \/ \E now \in Times : ProcessRow(now)
    \/ BatchAnswer
    \/ AppendResult
    \/ WriteReport
    \/ Interrupt
    \/ FatalError
    \/ Finally
    \/ Exit

SpecBatch == Init /\ [][NextBatch]_vars

----------------------------------------------------------------------------
(* http_client.HttpClient.login_and_set_token, and run_checker before the loop *)

\* r.json() of the answer to the login POST. An object is described by what
\* _extract_token looks at: `user` is "absent" (no such key), "scalar" (not an
\* object), "notoken" (an object without `token`), "null" (an object whose
\* `token` is null) or the token text; the other three keys are "absent", "null",
\* "" or the token text.
AuthObject(user, token, accessToken, access_token) ==
    [t |-> "dict", user |-> user, token |-> token, accessToken |-> accessToken,
     access_token |-> access_token]
AuthOther(t) ==
    [t |-> t, user |-> "absent", token |-> "absent", accessToken |-> "absent",
     access_token |-> "absent"]

AuthBodies ==
    {AuthObject(u, t, a, b) :
        u \in {"absent", "scalar", "notoken", "null", "T-user"},
        t \in {"absent", "", "T-token"},
        a \in {"absent", "T-accessToken"},
        b \in {"absent", "T-access_token"}}
    \cup {AuthOther("list"), AuthOther("null"), AuthOther("notjson")}

\* the Content-Type headers of the answer
AuthContentTypes ==
    {"application/json", "Application/JSON; charset=utf-8", "text/html", ""}

\* "application/json" in r.headers.get("content-type", "").lower()
IsJsonContentType(ct) == ct \in {"application/json", "Application/JSON; charset=utf-8"}

AuthStatuses == {200, 201, 401}

\* how self.s.post ended: a requests.RequestException, or a response
PostOutcomes ==
    {[raised |-> TRUE, status |-> 0, ct |-> "", data |-> AuthOther("null")]}
    \cup {[raised |-> FALSE, status |-> st, ct |-> ct, data |-> d] :
             st \in AuthStatuses, ct \in AuthContentTypes, d \in AuthBodies}

\* _extract_token(data) on an object; "null" stands for None
extract_token(data) ==
    IF data.user \notin {"absent", "scalar", "notoken"} THEN data.user
    ELSE IF data.token # "absent" THEN data.token
    ELSE IF data.accessToken # "absent" THEN data.accessToken
    ELSE IF data.access_token # "absent" THEN data.access_token
    ELSE "null"

\* the exception login_and_set_token is left by once the POST has ended as `post`
\* ("-" when it returns): the exception self.s.post raised, the RuntimeErrors of
\* the three checks, and what r.json(), _extract_token and data.keys() raise on
\* a body that is not a JSON object
login_raises(post) ==
    CASE post.raised -> "ConnectionError"
      [] ~post.raised /\ post.status # 201 -> "RuntimeError"
      [] ~post.raised /\ post.status = 201 /\ ~IsJsonContentType(post.ct) -> "RuntimeError"
      [] OTHER ->
           CASE post.data.t = "notjson" -> "JSONDecodeError"
             [] post.data.t = "null" -> "TypeError"
             [] post.data.t = "list" -> "AttributeError"
             [] OTHER -> IF extract_token(post.data) \in {"null", ""}
                         THEN "RuntimeError" ELSE "-"

\* slip: an exception of the login is swallowed and the run goes on
AfterRaise_CarryOn(exc) == "load"

\* which of run_checker's handlers takes the exception: RuntimeError and
\* ValueError (JSONDecodeError is one) go to sys.exit(1), the others leave
\* run_checker uncaught
AfterRaise(exc) ==
    IF exc \in {"RuntimeError", "JSONDecodeError", "ValueError", "FileNotFoundError"}
    THEN "fatal" ELSE "crashed"

\* the command lines and environments of a run
Credentials == {"", "set"}
Settings ==
    [check_year : {<<"2", "0", "2", "5">>}, token : {"", StaticToken},
     auth_email : Credentials, auth_password : Credentials]
Arguments == [dry_run : BOOLEAN]

\* args = parse_arguments(); settings = load_settings(); client =
\* HttpClient(settings); the static token set if there is one
Start(a, st) ==
    /\ run_pc = "idle"
    /\ pc = "idle"
    /\ http_pc = "idle"
    /\ args' = a
    /\ settings' = st
    /\ client' = IF st.token # "" THEN set_auth_header(NewClient, st.token) ELSE NewClient
    /\ run_pc' = IF st.token # "" THEN "load" ELSE "login"
    /\ wire' = <<>>
    /\ input_rows' = <<>>
    /\ results' = <<>>
    /\ report' = <<>>
    /\ UNCHANGED <<rowvars, probe, previous, getvars>>

\* login_and_set_token without email or password: RuntimeError before any request
LoginWithoutCredentials ==
    /\ run_pc = "login"
    /\ ~(settings.auth_email # "" /\ settings.auth_password # "")
    /\ run_pc' = AfterRaise("RuntimeError")
    /\ UNCHANGED <<args, settings, client, wire, input_rows, results, report>>
    /\ UNCHANGED <<rowvars, probe, previous, getvars>>

\* login_and_set_token with credentials: the POST to /api/v1/Auth, ended as `post`
Login(post) ==
    /\ run_pc = "login"
    /\ settings.auth_email # "" /\ settings.auth_password # ""
    /\ wire' = Append(wire, [ev |-> "POST", path |-> "/api/v1/Auth", row |-> 0,
                              auth |-> client.authorization, answer |-> post,
                              raises |-> login_raises(post)])
    /\ IF login_raises(post) = "-"
       THEN /\ client' = set_auth_header(client, extract_token(post.data))
            /\ run_pc' = "load"
       ELSE /\ client' = client
            /\ run_pc' = AfterRaise(login_raises(post))
    /\ UNCHANGED <<args, settings, input_rows, results, report>>
    /\ UNCHANGED <<rowvars, probe, previous, getvars>>

\* input_rows = load_input_data(...), then the --dry-run return
LoadInput(file) ==
    /\ run_pc = "load"
    /\ input_rows' = file
    /\ run_pc' = IF args.dry_run THEN "dry" ELSE "rows"
    /\ UNCHANGED <<args, settings, client, wire, results, report>>
    /\ UNCHANGED <<rowvars, probe, previous, getvars>>

\* load_input_data raises FileNotFoundError or ValueError
LoadFails ==
    /\ run_pc = "load"
    /\ run_pc' = AfterRaise("FileNotFoundError")
    /\ UNCHANGED <<args, settings, client, wire, input_rows, results, report>>
    /\ UNCHANGED <<rowvars, probe, previous, getvars>>

\* The start of run_checker with every answer the login can get, up to the end
\* of a dry run
NextLogin ==
    \/ \E st \in Settings : Start([dry_run |-> TRUE], st)
    \/ LoginWithoutCredentials
    \/ \E post \in PostOutcomes : Login(post)
    \/ \E file \in InputFiles : LoadInput(file)
    \/ LoadFails
    \/ Interrupt
    \/ Finally
    \/ Exit

SpecLogin == Init /\ [][NextLogin]_vars

----------------------------------------------------------------------------
(* run_checker from the command line to the exit, call by call *)

\* the environments of the runs: a static token, credentials, or neither
RunSettings ==
    {st \in Settings : st.auth_email = st.auth_password
                        /\ (st.token # "" => st.auth_email = "")}

\* how the login POST ends during the runs
RunPosts ==
    {[raised |-> TRUE, status |-> 0, ct |-> "", data |-> AuthOther("null")],
     [raised |-> FALSE, status |-> 401, ct |-> "text/html", data |-> AuthOther("notjson")],
     [raised |-> FALSE, status |-> 201, ct |-> "application/json",
      data |-> AuthObject("absent", "T-token", "absent", "absent")]}

\* what the server answers to a GET during the runs
RunAnswers ==
    {<<200, "application/json", Body_id42>>, <<200, "application/json", Body_list0>>,
     <<200, "application/json", Body_deep>>, <<404, "", Body_blank>>,
     <<401, "", Body_Unauthorized>>, <<503, "", Body_blank>>}

\* the exception a GET fails with during the runs
RunExceptions == {e \in RequestExceptions : e.msg = <<>>}

\* slip: the pause is left out in front of a row's first call
rate_limit_NotOnFirstCall(w, r, n) ==
    IF n = 0 THEN w ELSE Append(w, [ev |-> "pause", row |-> r])

\* time.sleep(RATE_LIMIT_MS / 1000.0) for row r, which has made n calls so far,
\* as an event of the run
rate_limit(w, r, n) == Append(w, [ev |-> "pause", row |-> r])

\* time.sleep(RATE_LIMIT_MS / 1000.0) in front of the call for a candidate
Pause ==
    /\ run_pc = "rows"
    /\ pc = "loop"
    /\ sequence[idx].params # <<>>
    /\ pc' = "paused"
    /\ sleeps' = sleeps + 1
    /\ wire' = rate_limit(wire, row.InputRow, Len(calls))
    /\ UNCHANGED <<row, default_year, sequence, idx, base_result, response, calls>>
    /\ UNCHANGED <<run_pc, args, settings, client, input_rows, results, report>>
    /\ UNCHANGED <<probe, previous, getvars>>

\* client.get_json(path, params=params) is entered
CallGetJson ==
    /\ run_pc = "rows"
    /\ pc = "paused"
    /\ http_pc = "idle"
    /\ http_pc' = "trying"
    /\ attempt' = 0
    /\ attempts' = <<>>
    /\ outcome' = NoResponse
    /\ waits' = <<>>
    /\ wire' = Append(wire, [ev |-> "GET", row |-> row.InputRow])
    /\ UNCHANGED <<run_pc, args, settings, client, input_rows, results, report>>
    /\ UNCHANGED <<rowvars, probe, previous>>

\* one HTTP attempt of the call in progress
RunAttempt ==
    /\ run_pc = "rows"
    /\ \/ \E resp \in RunAnswers : ServerResponds(resp[1], resp[2], resp[3])
       \/ \E e \in RunExceptions : RequestFails(e)

\* get_json has returned: `status, content_type, body = ...` and lines 150-218
TakeOutcome ==
    /\ run_pc = "rows"
    /\ pc = "paused"
    /\ http_pc = "returned"
    /\ Handle(outcome[1], outcome[2], outcome[3])
    /\ sleeps' = sleeps
    /\ http_pc' = "idle"
    /\ attempt' = 0
    /\ attempts' = <<>>
    /\ outcome' = NoResponse
    /\ waits' = <<>>
    /\ wire' = Append(wire, [ev |-> "answer", row |-> row.InputRow])
    /\ UNCHANGED <<run_pc, args, settings, client, input_rows, results, report>>
    /\ UNCHANGED <<probe, previous>>

NextRun ==
    \/ \E a \in Arguments, st \in RunSettings : Start(a, st)
    \/ LoginWithoutCredentials
    \/ \E post \in RunPosts : Login(post)
    \/ \E file \in InputFiles : LoadInput(file)
    \/ LoadFails
    \/ ProcessRow(1)
    \/ Pause
    \/ CallGetJson
    \/ RunAttempt
    \/ TakeOutcome
    \/ AppendResult
    \/ WriteReport
    \/ Interrupt
    \/ FatalError
    \/ Finally
    \/ Exit

SpecRun == Init /\ [][NextRun]_vars

----------------------------------------------------------------------------
(* Properties *)

\* CUSTOMER_TRN is absent, None, empty or whitespace-only
BlankTrn(r) ==
    \/ r.CUSTOMER_TRN \in {PyAbsent, PyNone}
    \/ /\ r.CUSTOMER_TRN.k = "str"
       /\ \A i \in DOMAIN r.CUSTOMER_TRN.s : r.CUSTOMER_TRN.s[i] \in Whitespace

\* the row's TRN as text, trimmed
TrimmedTrn(r) ==
    IF r.CUSTOMER_TRN.k \in {"str", "nan"} THEN Strip(PyToStr(r.CUSTOMER_TRN)) ELSE <<>>

HasKey(params, key) == \E i \in DOMAIN params : params[i][1] = key
ParamValue(params, key) == params[CHOOSE i \in DOMAIN params : params[i][1] = key][2]

\* every candidate of seq that carries a year carries the year y
YearParamsAre(seq, y) ==
    \A i \in DOMAIN seq :
        HasKey(seq[i].params, "year") => ParamValue(seq[i].params, "year") = y

\* C1: for a row whose CUSTOMER_TRN is absent, None, empty or whitespace-only,
\* select_endpoint_sequence returns the empty list and check_row_status returns at
\* once with EndpointUsed = 'NO_STRATEGY' and HTTPStatus = 0, having made no
\* get_json call and taken no rate-limit pause.
C1_NoStrategyForBlankTrn ==
    (pc \in {"loop", "done"} /\ BlankTrn(row)) =>
        /\ select_endpoint_sequence(row, default_year) = <<>>
        /\ sequence = <<>>
        /\ pc = "done"
        /\ base_result.EndpointUsed = <<"NO_STRATEGY">>
        /\ base_result.HTTPStatus = 0
        /\ calls = <<>>
        /\ sleeps = 0

C1_Witness ==
    /\ pc = "done"
    /\ row.CUSTOMER_TRN = PyStr(<<" ", " ">>)
    /\ base_result.EndpointUsed = <<"NO_STRATEGY">>
    /\ calls = <<>>

C3_FourCandidates ==
    (pc = "selected" /\ TrimmedTrn(row) # <<>>) =>
        /\ Len(sequence) = 4
        /\ sequence[1].path = "/api/v2/Applications/ByYearTRN"
        /\ sequence[2].path = "/api/v1/Applications/ByYearTRN"
        /\ sequence[3].path = "/api/v2/Applications/ByTRN"
        /\ sequence[4].path = "/api/v1/Applications/ByTRN"
        /\ \A i \in 1..4 : /\ HasKey(sequence[i].params, "trn")
                           /\ ParamValue(sequence[i].params, "trn") = TrimmedTrn(row)
                           /\ HasKey(sequence[i].params, "year") <=> i \in {1, 2}

\* C3 as the code has it: for a row with a non-empty trimmed TRN the selector
\* yields exactly 1 candidate, /api/v2/Applications/ByYearTRN, carrying trn = the
\* trimmed TRN and year = defaultYear.
C3_SingleCandidate ==
    (pc = "selected" /\ TrimmedTrn(row) # <<>>) =>
        sequence = << [path |-> "/api/v2/Applications/ByYearTRN",
                       params |-> << <<"trn", TrimmedTrn(row)>>,
                                     <<"year", default_year>> >>] >>

C3_Witness ==
    /\ pc = "selected"
    /\ row.CUSTOMER_TRN = PyStr(<<" ", "7">>)
    /\ Len(sequence) = 1
    /\ ParamValue(sequence[1].params, "trn") = <<"7">>

\* C4 as stated: when the row's ACADEMIC_YEAR, trimmed, is non-empty and all
\* decimal digits, the year-carrying candidates carry the row's year.
C4_RowYearUsed ==
    (pc = "selected" /\ ValidYear(row)) => YearParamsAre(sequence, YearText(row))

\* C4 as the code has it: when the row's ACADEMIC_YEAR, trimmed, is non-empty and
\* all decimal digits, the year-carrying candidates still carry defaultYear; the
\* row's year is not used.
C4_DefaultYearDespiteRowYear ==
    (pc = "selected" /\ ValidYear(row)) => YearParamsAre(sequence, default_year)

C4_Witness ==
    /\ pc = "selected"
    /\ row.ACADEMIC_YEAR = PyStr(<<" ", "2", "0", "2", "4", " ">>)
    /\ default_year = <<"2", "0", "2", "5">>
    /\ sequence # <<>>
    /\ HasKey(sequence[1].params, "year")
    /\ ParamValue(sequence[1].params, "year") = <<"2", "0", "2", "5">>

\* C5: when the row's ACADEMIC_YEAR is absent, empty after trimming, "nan" in any
\* case, or holds a non-digit character, the year-carrying candidates carry
\* defaultYear.
C5_InvalidYearFallsBack ==
    (pc = "selected" /\ ~ValidYear(row)) => YearParamsAre(sequence, default_year)

C5_Witness ==
    /\ pc = "selected"
    /\ row.ACADEMIC_YEAR = PyStr(<<"2", "0", "2", "5", ".", "0">>)
    /\ default_year = <<"2", "0", "2", "6">>
    /\ sequence # <<>>
    /\ HasKey(sequence[1].params, "year")
    /\ ParamValue(sequence[1].params, "year") = <<"2", "0", "2", "6">>

\* the outcome of a call lets the loop go on: 404, or 200 with parseable empty data
Continuing(c) == c.status = 404 \/ (c.status = 200 /\ c.body = "empty")

\* the outcome of a call is terminal: 200 with data, 200 that does not parse, or
\* any status other than 200 and 404
Terminal(c) ==
    \/ c.status = 200 /\ c.body \in {"data", "unparseable"}
    \/ c.status \notin {200, 404}

Callable(cand) == cand.params # <<>>

\* path + '?' + query of the two callable candidates used in SpecSeq
ExpectedEndpoint(path) ==
    CASE path = "/api/v2/Applications/ByYearTRN" ->
           <<"/api/v2/Applications/ByYearTRN", "?", "trn", "=",
             "1", "0", "0", "3", "7", "9", "8", "9", "3", "&", "year", "=",
             "2", "0", "2", "5">>
      [] path = "/api/v2/Applications/ByTRN" ->
           <<"/api/v2/Applications/ByTRN", "?", "trn", "=", "7", "+", "7">>

\* the candidates the loop has passed, skipped ones left out
Passed ==
    SelectSeq(SubSeq(sequence, 1,
                     IF pc = "loop" THEN idx - 1
                     ELSE IF idx > Len(sequence) THEN Len(sequence) ELSE idx),
              Callable)

\* C6: on a 404 or an empty 200 the loop does not stop but goes on to the next
\* candidate (it finishes after such an outcome only when no candidate is left, and
\* the calls made are exactly the callable candidates passed, in order); a 200 with
\* parseable non-empty data yields Present = True, HTTPStatus = 200, EndpointUsed =
\* that candidate's path?query and Note = 'Present (200 OK with data)'.
C6_FallbackUntilData ==
    /\ pc \in {"loop", "done"} =>
          /\ Len(calls) = Len(Passed)
          /\ \A k \in DOMAIN calls : /\ calls[k].path = Passed[k].path
                                     /\ calls[k].params = Passed[k].params
    /\ (pc = "done" /\ calls # <<>> /\ Continuing(calls[Len(calls)])) =>
          idx = Len(sequence) + 1
    /\ (pc = "done" /\ calls # <<>> /\ calls[Len(calls)].status = 200
                    /\ calls[Len(calls)].body = "data") =>
          /\ base_result.Present = "True"
          /\ base_result.HTTPStatus = 200
          /\ base_result.EndpointUsed = ExpectedEndpoint(calls[Len(calls)].path)
          /\ base_result.Note = <<"Present (200 OK with data)">>

C6_Witness ==
    /\ pc = "done"
    /\ Len(sequence) = 2
    /\ sequence[1].path = "/api/v2/Applications/ByYearTRN"
    /\ sequence[2].path = "/api/v2/Applications/ByTRN"
    /\ Len(calls) = 2
    /\ calls[1].status = 200 /\ calls[1].body = "empty"
    /\ calls[2].status = 200 /\ calls[2].body = "data"
    /\ response[3] = Body_id42
    /\ base_result.Present = "True"
    /\ base_result.EndpointUsed = ExpectedEndpoint("/api/v2/Applications/ByTRN")

\* C7: when every candidate of a non-empty sequence was called and each returned
\* 404 or an empty 200, the verdict has Present = False, Note = 'Absent (404 on all
\* endpoints)', and the EndpointUsed and HTTPStatus of the last candidate tried
\* (HTTPStatus = 404 when all returned 404).
C7_AbsentAfterExhaustion ==
    (/\ pc = "done"
     /\ sequence # <<>>
     /\ Len(calls) = Len(sequence)
     /\ \A k \in DOMAIN calls : Continuing(calls[k])) =>
        /\ base_result.Present = "False"
        /\ base_result.Note = <<"Absent (404 on all endpoints)">>
        /\ base_result.EndpointUsed = ExpectedEndpoint(sequence[Len(sequence)].path)
        /\ base_result.HTTPStatus = calls[Len(calls)].status
        /\ (\A k \in DOMAIN calls : calls[k].status = 404) => base_result.HTTPStatus = 404

C7_Witness ==
    /\ pc = "done"
    /\ Len(sequence) = 3
    /\ Len(calls) = 3
    /\ \A k \in DOMAIN calls : calls[k].status = 404
    /\ sequence[3].path = "/api/v2/Applications/ByTRN"
    /\ base_result.Note = <<"Absent (404 on all endpoints)">>
    /\ base_result.HTTPStatus = 404

C10_NoCallAfterTerminal ==
    \A k \in DOMAIN calls :
        Terminal(calls[k]) => (k = Len(calls) /\ pc = "done" /\ idx <= Len(sequence))

C10_Witness ==
    /\ pc = "done"
    /\ Len(sequence) = 3
    /\ \A i \in DOMAIN sequence : Callable(sequence[i])
    /\ Len(calls) = 1
    /\ calls[1].status = 401

\* C11: the emptiness test says 'empty' exactly when the parsed value is null, an
\* empty list, an empty mapping, or a mapping at least one of whose values is an
\* empty list; a non-empty list, a scalar and a mapping without an empty-list value
\* are non-empty.
C11_EmptinessTest ==
    \A k \in DOMAIN probe :
        LET v == probe[k].data IN
        probe[k].is_empty <=>
            \/ v = JNull
            \/ v = JList(<<>>)
            \/ v = JDict(<<>>, <<>>)
            \/ v.t = "dict" /\ \E i \in DOMAIN v.items : v.items[i] = JList(<<>>)

C11_Witness ==
    /\ probe # <<>>
    /\ probe[1].data = JDict(<<"a", "b">>, <<JNum, JList(<<>>)>>)
    /\ probe[1].is_empty

\* this invocation has returned, and the one before it had the same row, the same
\* default year and the same answers from the transport to the same calls
SameInputsAsPrevious ==
    /\ pc = "done"
    /\ previous # <<>>
    /\ previous[1].row = row
    /\ previous[1].default_year = default_year
    /\ previous[1].calls = calls
    /\ previous[1].response = response

\* C12 as stated: two invocations of check_row_status on the same row and default
\* year, the transport answering the same calls alike, return records equal in
\* every field.
C12_IdenticalVerdicts ==
    SameInputsAsPrevious => base_result = previous[1].result

\* C12, amended: the two records are equal in every field other than CheckedAt.
C12_IdenticalButCheckedAt ==
    SameInputsAsPrevious =>
        \A f \in DOMAIN base_result \ {"CheckedAt"} :
            base_result[f] = previous[1].result[f]

C12_Witness ==
    /\ SameInputsAsPrevious
    /\ calls # <<>>
    /\ response = <<200, "application/json", Body_id42>>
    /\ base_result.Present = "True"
    /\ base_result.CheckedAt # previous[1].result.CheckedAt
    /\ base_result.Note = previous[1].result.Note

\* C13: when at least one get_json call was made for the row, the returned record
\* has EndpointUsed = path + '?' + urlencoded params of the last call made and
\* HTTPStatus = the status of that call, whichever way the function returned (data
\* found, parse error, other status, candidates exhausted).
C13_LastCallRecorded ==
    (pc = "done" /\ calls # <<>>) =>
        /\ base_result.EndpointUsed = ExpectedEndpoint(calls[Len(calls)].path)
        /\ base_result.HTTPStatus = calls[Len(calls)].status

\* exhaustion, the last candidate skipped: the record is that of the second call
C13_Witness ==
    /\ pc = "done"
    /\ Len(sequence) = 3
    /\ sequence[1].path = "/api/v2/Applications/ByYearTRN"
    /\ sequence[2].path = "/api/v2/Applications/ByTRN"
    /\ sequence[3].params = <<>>
    /\ Len(calls) = 2
    /\ calls[1].status = 200 /\ calls[1].body = "empty"
    /\ calls[2].status = 404
    /\ base_result.HTTPStatus = 404
    /\ base_result.EndpointUsed =
          <<"/api/v2/Applications/ByTRN", "?", "trn", "=", "7", "+", "7">>
    /\ base_result.Note = <<"Absent (404 on all endpoints)">>

\* C14: no exception leaves check_row_status, for any row and any triple that
\* get_json returns: the function is never left by a raised exception.
C14_NoExceptionEscapes == pc # "raised"

\* an HTTP attempt ended in a transient failure: a network error, or one of the
\* retryable statuses
Transient(a) == a.kind = "exception" \/ a.status \in {408, 500, 502, 503, 504}

\* C15: get_json returns status 0, with a non-empty body describing the failure,
\* exactly when its last attempt ended in a requests.RequestException; otherwise the
\* status returned is the server's status of the last attempt, unchanged.
C15_ZeroIffNetworkFailure ==
    http_pc = "returned" =>
        LET last == attempts[Len(attempts)] IN
        /\ outcome[1] = 0 <=> last.kind = "exception"
        /\ outcome[1] = 0 =>
              /\ Len(outcome[3]) > 15
              /\ SubSeq(outcome[3], 1, 15) =
                    <<"N", "e", "t", "w", "o", "r", "k", " ", "e", "r", "r", "o", "r",
                      ":", " ">>
        /\ last.kind = "response" => outcome[1] = last.status

C15_Witness ==
    /\ http_pc = "returned"
    /\ Len(attempts) = 3
    /\ attempts[1] = [kind |-> "response", status |-> 500]
    /\ attempts[2].kind = "exception"
    /\ attempts[3].kind = "exception"
    /\ outcome = <<0, "", Body_network>>

\* get_json has used up its retries: MAX_RETRIES + 1 attempts were made and each
\* ended in a transient failure
RetriesExhausted ==
    /\ http_pc = "returned"
    /\ Len(attempts) = MAX_RETRIES + 1
    /\ \A k \in DOMAIN attempts : Transient(attempts[k])

\* C16 as stated: whenever get_json uses up its retries, the outcome it returns has
\* status 0.
C16_ExhaustedIsZero == RetriesExhausted => outcome[1] = 0

\* C16, amended: when get_json uses up its retries, the status it returns is 0 if
\* the last attempt ended in a network error, and otherwise the retryable status
\* the server sent on the last attempt.
C16_ExhaustedIsZeroOrLastStatus ==
    RetriesExhausted =>
        /\ attempts[MAX_RETRIES + 1].kind = "exception" => outcome[1] = 0
        /\ attempts[MAX_RETRIES + 1].kind = "response" =>
              /\ outcome[1] = attempts[MAX_RETRIES + 1].status
              /\ outcome[1] \in {408, 500, 502, 503, 504}

C16_Witness ==
    /\ RetriesExhausted
    /\ attempts[1].kind = "exception"
    /\ attempts[2] = [kind |-> "response", status |-> 503]
    /\ attempts[3] = [kind |-> "response", status |-> 500]
    /\ outcome[1] = 500
    /\ waits = <<500, 1000>>

\* at most MAX_RETRIES + 1 = 3 attempts, network errors and retryable statuses
\* counted together; an attempt is followed by another one only if it was not the
\* last allowed and ended in a transient failure; any other ending returns at once
C17_AttemptsBounded ==
    /\ MAX_RETRIES + 1 = 3
    /\ Len(attempts) <= 3
    /\ http_pc = "trying" => (Len(attempts) = attempt /\ attempt < 3)
    /\ Len(attempts) = 3 => http_pc = "returned"
    /\ \A k \in DOMAIN attempts :
          /\ k < Len(attempts) => Transient(attempts[k])
          /\ ~Transient(attempts[k]) => (k = Len(attempts) /\ http_pc = "returned")
    /\ (attempts # <<>> /\ ~Transient(attempts[1])) =>
          (Len(attempts) = 1 /\ http_pc = "returned" /\ outcome[1] = attempts[1].status)

\* C17: get_json makes at most MAX_RETRIES + 1 = 3 HTTP attempts whatever the mix of
\* network errors and retryable statuses, retries only after a non-final attempt
\* that ended in a network error or a status in {408, 500, 502, 503, 504}, returns
\* on the first attempt for any other status, and every call ends by returning.
C17_TerminatesWithinThreeAttempts ==
    /\ []C17_AttemptsBounded
    /\ (http_pc = "trying") ~> (http_pc = "returned")

C17_Witness ==
    /\ http_pc = "returned"
    /\ Len(attempts) = 3
    /\ attempts[1].kind = "exception"
    /\ attempts[2] = [kind |-> "response", status |-> 408]
    /\ attempts[3].kind = "exception"
    /\ attempt = 2
    /\ outcome[1] = 0

\* C18: get_json is never left by a requests.RequestException: after an attempt
\* that raised one, either another attempt follows or the call returns the triple
\* (0, "", "Network error: ..."), the last attempt included.
C18_RequestExceptionNeverRaised ==
    /\ http_pc # "raised"
    /\ \A k \in DOMAIN attempts :
          attempts[k].kind = "exception" =>
              \/ k < Len(attempts)
              \/ http_pc = "trying" /\ attempt = k
              \/ /\ http_pc = "returned"
                 /\ k = MAX_RETRIES + 1
                 /\ \E e \in RequestExceptions : outcome = NetworkFailure(e)

C18_Witness ==
    /\ http_pc = "returned"
    /\ Len(attempts) = 3
    /\ \A k \in DOMAIN attempts : attempts[k].kind = "exception"
    /\ outcome[1] = 0
    /\ outcome[3] = <<"N", "e", "t", "w", "o", "r", "k", " ", "e", "r", "r", "o", "r",
                       ":", " ", "C", "o", "n", "n", "e", "c", "t", "i", "o", "n", "E",
                       "r", "r", "o", "r", ":", " ">>

\* after a run that reached the end: one result per input row, the i-th carrying
\* the i-th row's InputRow, and the report holding their lines in the same order
C19_OnePerRowInOrder ==
    run_pc = "complete" =>
        /\ Len(results) = Len(input_rows)
        /\ \A i \in DOMAIN input_rows :
              /\ results[i].InputRow = input_rows[i].InputRow
              /\ results[i].InputRow = i
        /\ input_rows # <<>> =>
              /\ report # <<>>
              /\ report[1].name = "results"
              /\ Len(report[1].rows) = Len(input_rows)
              /\ \A i \in DOMAIN input_rows :
                    /\ report[1].rows[i].InputRow = IntToStr(i)
                    /\ report[1].rows[i] = CsvRow(results[i])

\* while the rows are processed a result already in the list stays as it is
C19_AppendedStaysPut ==
    run_pc = "rows" =>
        \A k \in DOMAIN results : k \in DOMAIN results' /\ results'[k] = results[k]

\* C19: after a batch run that completes without interruption or fatal error,
\* results holds exactly one verdict per input row, in input order (the i-th
\* verdict carries the i-th row's InputRow), and a verdict once appended is not
\* modified before it is written to the report.
C19_OneVerdictPerRow ==
    /\ []C19_OnePerRowInOrder
    /\ [][C19_AppendedStaysPut]_vars

C19_Witness ==
    /\ run_pc = "complete"
    /\ Len(input_rows) = 2
    /\ input_rows[1].CUSTOMER_TRN = PyStr(<<>>)
    /\ input_rows[2].CUSTOMER_TRN = PyStr(Trn_100379893)
    /\ results[1].Present = "None"
    /\ results[2].Present = "True"
    /\ results[1].CheckedAt # results[2].CheckedAt
    /\ report[1].rows[1].Present = <<>>
    /\ report[1].rows[2].Present = <<"T", "r", "u", "e">>

\* C20: when Ctrl+C arrives while row k is being resolved, the partial report
\* written holds exactly the lines of the verdicts of rows 1..k-1, as they were
\* appended, and nothing for row k; for k = 1 there is no verdict yet and no
\* report file is written.
C20_PartialReportOnInterrupt ==
    (run_pc = "interrupted" /\ pc \in {"loop", "done"}) =>
        LET k == row.InputRow IN
        /\ Len(results) = k - 1
        /\ k = 1 => report = <<>>
        /\ k > 1 =>
              /\ report # <<>>
              /\ report[1].name = "results_partial"
              /\ Len(report[1].rows) = k - 1
              /\ \A i \in 1..(k - 1) :
                    /\ report[1].rows[i] = CsvRow(results[i])
                    /\ report[1].rows[i].InputRow = IntToStr(i)

C20_Witness ==
    /\ run_pc = "interrupted"
    /\ pc = "loop"
    /\ row.InputRow = 2
    /\ Len(input_rows) = 2
    /\ Len(results) = 1
    /\ results[1].Present = "False"
    /\ report # <<>>
    /\ report[1].name = "results_partial"
    /\ Len(report[1].rows) = 1
    /\ report[1].rows[1].Note = <<"Error (", "4", "0", "1", "): ", "U", "n", "a", "u",
                                   "t", "h", "o", "r", "i", "z", "e", "d">>

\* the login succeeded for the POST event e: the four conditions of success
LoginConditions(e) ==
    /\ e.answer.raised = FALSE
    /\ e.answer.status = 201
    /\ IsJsonContentType(e.answer.ct)
    /\ e.answer.data.t = "dict"
    /\ extract_token(e.answer.data) \notin {"null", ""}

\* C29: login_and_set_token sets the Authorization header only when the
\* credentials are present, the status is 201, the content type is JSON and a
\* token is found; in every other case it raises RuntimeError and leaves the
\* header as it was.
C29_HeaderOrRuntimeError ==
    /\ \A i \in DOMAIN wire :
         wire[i].ev = "POST" =>
            IF LoginConditions(wire[i])
            THEN wire[i].raises = "-"
            ELSE wire[i].raises = "RuntimeError" /\ client.authorization = wire[i].auth
    /\ (settings.token = "" /\ wire = <<>> /\ run_pc \in {"fatal", "crashed", "load"}) =>
            /\ run_pc = "fatal"
            /\ client.authorization = <<>>

\* the HTTP requests among the events of the run
Requests(w) == SelectSeq(w, LAMBDA e : e.ev \in {"GET", "POST"})

\* C22: on a --dry-run no HTTP request of any kind is issued, neither an
\* application GET nor the authentication POST.
C22_NoRequestOnDryRun == args.dry_run => Requests(wire) = <<>>

\* C21: the rows are processed strictly one after the other: the events of the
\* run come in the order of the rows, every get_json call is answered before
\* anything else happens (or is cut short by the end of the process), and the
\* HTTP attempts in flight (the retries included) belong to the one call in
\* progress, made for the row after those done.
C21_RowsInSequence ==
    /\ \A i \in 1..(Len(wire) - 1) :
         /\ wire[i].row <= wire[i + 1].row
         /\ wire[i].ev = "GET" =>
               \/ wire[i + 1].ev = "answer" /\ wire[i + 1].row = wire[i].row
               \/ wire[i + 1].ev = "exit" /\ i + 1 = Len(wire)
    /\ (http_pc # "idle" /\ run_pc # "exited") =>
         /\ wire # <<>>
         /\ wire[Len(wire)].ev = "GET"
         /\ wire[Len(wire)].row = Len(results) + 1
         /\ pc = "paused"
    /\ http_pc = "idle" => attempts = <<>>

\* the second row's call is on its third attempt, the first row's call answered
C21_Witness ==
    /\ run_pc = "rows"
    /\ http_pc = "trying"
    /\ attempt = 2
    /\ row.InputRow = 2
    /\ \E i \in DOMAIN wire : wire[i].ev = "answer" /\ wire[i].row = 1

\* C28: a RATE_LIMIT_MS pause is taken immediately before every get_json call
\* check_row_status makes, so two consecutive calls, of one row or of two, are
\* separated by a pause.
C28_PauseBeforeEveryCall ==
    /\ \A i \in DOMAIN wire :
         wire[i].ev = "GET" =>
            /\ i > 1
            /\ wire[i - 1].ev = "pause"
            /\ wire[i - 1].row = wire[i].row
    /\ \A i, j \in DOMAIN wire :
         (i < j /\ wire[i].ev = "GET" /\ wire[j].ev = "GET") =>
            \E k \in (i + 1)..(j - 1) : wire[k].ev = "pause"

\* two rows have each made a call
C28_Witness ==
    \E i, j \in DOMAIN wire :
        /\ wire[i].ev = "GET" /\ wire[i].row = 1
        /\ wire[j].ev = "GET" /\ wire[j].row = 2

\* the ways out of the try block of run_checker
ExitPaths == {"complete", "dry", "interrupted", "fatal", "crashed"}

\* C30: once the HttpClient is created, client.close() is called exactly once
\* on every way out: it is not called before the try block is left, and the step
\* that leaves run_checker from any of the exit paths calls it once.
C30_ClosedOnceOnEveryExit ==
    /\ [](client.created =>
            /\ client.closed <= 1
            /\ (run_pc # "exited" => client.closed = 0)
            /\ (run_pc = "exited" => client.closed = 1))
    /\ [][(run_pc \in ExitPaths /\ client.created) =>
            (run_pc' = "exited" /\ client'.closed = 1)]_vars

\* the run was interrupted after a result, the partial report written, and left
C30_Witness ==
    /\ run_pc = "exited"
    /\ client.closed = 1
    /\ report # <<>>
    /\ report[1].name = "results_partial"

\* how the last call of the returned verdict ended: "present", "empty",
\* "not_found", "error" or "invalid_json"
LastKind == Classify(response[1], response[3])

ParamKeys(cand) == {cand.params[j][1] : j \in DOMAIN cand.params}

\* C24: every candidate select_endpoint_sequence produces has one of the four
\* fixed paths, a trn parameter that is exactly the text of the row's
\* CUSTOMER_TRN with the surrounding whitespace removed (never empty, nothing
\* added or encoded), and a year parameter exactly on the ByYearTRN paths.
C24_CandidateShape ==
    pc = "selected" =>
        \A i \in DOMAIN sequence :
            LET cand == sequence[i] IN
            /\ cand.path \in {ByYearTRN_v2, ByYearTRN_v1, ByTRN_v2, ByTRN_v1}
            /\ ParamKeys(cand) \subseteq {"trn", "year"}
            /\ "trn" \in ParamKeys(cand)
            /\ row.CUSTOMER_TRN.k \in {"str", "nan"}
            /\ ParamValue(cand.params, "trn") = Strip(PyToStr(row.CUSTOMER_TRN))
            /\ ParamValue(cand.params, "trn") # <<>>
            /\ Head(ParamValue(cand.params, "trn")) \notin Whitespace
            /\ ParamValue(cand.params, "trn")[Len(ParamValue(cand.params, "trn"))] \notin Whitespace
            /\ "year" \in ParamKeys(cand) <=> cand.path \in {ByYearTRN_v2, ByYearTRN_v1}

\* a TRN cell with a blank in front and a character urlencode would escape
C24_Witness ==
    /\ pc = "selected"
    /\ row.CUSTOMER_TRN = PyStr(<<" ", "&">>)
    /\ sequence # <<>>
    /\ ParamValue(sequence[1].params, "trn") = <<"&">>
    /\ sequence[1].path = ByYearTRN_v2

\* C25: a candidate with an empty parameter map is skipped without counting as
\* an attempt: the step that skips it makes no get_json call and no pause and
\* leaves EndpointUsed and HTTPStatus as they were, so calls and pauses are
\* counted by the candidates with parameters alone.
C25_SkipIsNoAttempt ==
    /\ [](pc \in {"loop", "done"} =>
            /\ sleeps = Len(Passed)
            /\ Len(calls) = sleeps)
    /\ [][(pc = "loop" /\ sequence[idx].params = <<>>) =>
            /\ calls' = calls
            /\ sleeps' = sleeps
            /\ response' = response
            /\ base_result'.EndpointUsed = base_result.EndpointUsed
            /\ base_result'.HTTPStatus = base_result.HTTPStatus]_vars

\* a 404 on the first candidate, then a candidate without parameters skipped
C25_Witness ==
    /\ pc = "done"
    /\ Len(sequence) = 2
    /\ sequence[1].params # <<>>
    /\ sequence[2].params = <<>>
    /\ Len(calls) = 1
    /\ sleeps = 1
    /\ base_result.HTTPStatus = 404
    /\ base_result.EndpointUsed = EndpointUsedOf(sequence[1].path, sequence[1].params)

SameButRegistration ==
    /\ pc = "done"
    /\ previous # <<>>
    /\ previous[1].default_year = default_year
    /\ previous[1].row.REGISTRATION_NO # row.REGISTRATION_NO
    /\ \A f \in DOMAIN row \ {"REGISTRATION_NO"} : previous[1].row[f] = row[f]

\* what the transport answered, call by call
Answered(cs) == [k \in DOMAIN cs |-> <<cs[k].status, cs[k].body>>]

\* C27: the verdict's InputRow and ApplicationNumber are the row's InputRow and
\* REGISTRATION_NO however check_row_status returns, and REGISTRATION_NO has no
\* influence on the calls made nor, the transport answering alike, on Present,
\* Note, HTTPStatus and EndpointUsed.
C27_RegistrationCopiedOnly ==
    /\ pc = "done" =>
          /\ base_result.InputRow = row.InputRow
          /\ base_result.ApplicationNumber =
                (IF row.REGISTRATION_NO = PyAbsent THEN PyStr(<<>>)
                 ELSE row.REGISTRATION_NO)
    /\ SameButRegistration =>
          /\ sequence = previous[1].sequence
          /\ Len(calls) = Len(previous[1].calls)
          /\ \A k \in DOMAIN calls :
                /\ calls[k].path = previous[1].calls[k].path
                /\ calls[k].params = previous[1].calls[k].params
          /\ (Answered(calls) = Answered(previous[1].calls)
              /\ response = previous[1].response) =>
                \A f \in {"Present", "Note", "HTTPStatus", "EndpointUsed"} :
                    base_result[f] = previous[1].result[f]

\* the second row of a file, found, after the same row without its
\* registration number was found
C27_Witness ==
    /\ SameButRegistration
    /\ row.InputRow = 2
    /\ row.REGISTRATION_NO = PyStr(<<"S", "L", "B", "-", "1", "5", "6", "4", "3", "9">>)
    /\ base_result.ApplicationNumber = row.REGISTRATION_NO
    /\ base_result.InputRow = 2
    /\ base_result.Present = PresentTrue
    /\ previous[1].result.Present = PresentTrue
    /\ previous[1].result.ApplicationNumber = PyStr(<<>>)

\* the last get_json call of the row answered 200 with a body that parses and
\* holds data
LastCallHeldData ==
    /\ calls # <<>>
    /\ calls[Len(calls)].status = 200
    /\ calls[Len(calls)].body = "data"

\* C31: in every verdict Present = True holds exactly when the last get_json
\* call made for the row returned 200 with a parseable, non-empty body; Present =
\* True comes with HTTPStatus = 200 and with the 'Present' note, never with an
\* 'Error' or 'Absent' note.
C31_PresentIffLastCallHeldData ==
    pc = "done" =>
        /\ base_result.Present = PresentTrue <=> LastCallHeldData
        /\ base_result.Present = PresentTrue =>
              /\ base_result.HTTPStatus = 200
              /\ base_result.Note = Note_Present
              /\ base_result.Note # Note_Absent
              /\ base_result.Note[1] \notin {"Error: Invalid JSON response - ", "Error ("}

\* data found on the third candidate, after a 404 and an empty 200
C31_Witness ==
    /\ pc = "done"
    /\ Len(calls) = 3
    /\ calls[1].status = 404
    /\ calls[2].status = 200 /\ calls[2].body = "empty"
    /\ LastCallHeldData
    /\ base_result.Present = PresentTrue
    /\ base_result.HTTPStatus = 200

\* the ways of assigning to each call made a place in the sequence, later calls
\* to later places
CallPlaces ==
    {f \in [DOMAIN calls -> DOMAIN sequence] :
        \A j, k \in DOMAIN calls : j < k => f[j] < f[k]}

\* C32: for any candidate sequence the get_json calls of one row follow the
\* order of the sequence, no candidate is called more than once and there are at
\* most as many calls as candidates; every pass of the loop moves on by one
\* candidate or leaves the loop, so the resolution of a row ends.
C32_CallsFollowSequence ==
    /\ [](pc \in {"loop", "done"} =>
            /\ Len(calls) <= Len(sequence)
            /\ idx <= Len(sequence) + 1
            /\ \E f \in CallPlaces :
                  \A k \in DOMAIN calls :
                     /\ calls[k].path = sequence[f[k]].path
                     /\ calls[k].params = sequence[f[k]].params
                     /\ f[k] <= idx)
    /\ [][pc = "loop" =>
            \/ pc' = "loop" /\ idx' = idx + 1 /\ Len(calls') <= Len(calls) + 1
            \/ pc' \in {"done", "raised"}]_vars

\* three candidates called in turn, the row absent on all of them
C32_Witness ==
    /\ pc = "done"
    /\ Len(sequence) = 3
    /\ Len(calls) = 3
    /\ idx = 4
    /\ \A k \in 1..3 : calls[k].path = sequence[k].path
    /\ sequence[1] # sequence[2]

C34_YearCheckedIsYearSent ==
    pc \in {"loop", "done"} =>
        \A k \in DOMAIN calls :
            HasKey(calls[k].params, "year") =>
                ParamValue(calls[k].params, "year") = base_result.YearChecked

\* a row whose own year is 2024, checked for the default year 2025
C34_Witness ==
    /\ pc = "done"
    /\ row.ACADEMIC_YEAR = PyStr(<<"2", "0", "2", "4">>)
    /\ calls # <<>>
    /\ HasKey(calls[1].params, "year")
    /\ ParamValue(calls[1].params, "year") = <<"2", "0", "2", "5">>
    /\ base_result.YearChecked = <<"2", "0", "2", "5">>

\* the verdicts among res that an error outcome produced: a status other than
\* 200 and 404, or a 200 whose body did not parse
ErrorVerdicts(res) ==
    {k \in DOMAIN res :
        /\ res[k].EndpointUsed # NO_STRATEGY
        /\ \/ res[k].HTTPStatus \notin {200, 404}
           \/ res[k].Note[1] = "Error: Invalid JSON response - "}

\* C35: the summary counts partition the results: total_present + total_absent +
\* total_error is the number of results, and no verdict produced by an error
\* outcome is counted as Absent.
C35_SummaryPartitions ==
    \A i \in DOMAIN wire :
        wire[i].ev = "summary" =>
            /\ wire[i].present + wire[i].absent + wire[i].error = Len(results)
            /\ wire[i].absent =
                  Cardinality({k \in DOMAIN results :
                                  /\ results[k].Present = PresentFalse
                                  /\ k \notin ErrorVerdicts(results)})

\* the try block was left by an exception before any token was set: the login
\* has failed
LoginFailed ==
    /\ run_pc \in {"fatal", "crashed"}
    /\ client.created
    /\ client.authorization = <<>>

\* C36: no application GET is issued before a bearer token is set on the client:
\* the static token is set or the login has succeeded before the first
\* check_row_status call; when the login fails the run ends with exit status 1,
\* no get_json call made and no report written.
C36_TokenBeforeFirstGet ==
    /\ [](/\ (run_pc = "rows" \/ pc # "idle" \/ http_pc # "idle") =>
                client.authorization \in {Bearer(StaticToken), Bearer("T-token")}
          /\ \A i \in DOMAIN wire :
                wire[i].ev = "GET" =>
                   \/ settings.token # ""
                   \/ \E j \in 1..(i - 1) : wire[j].ev = "POST" /\ wire[j].raises = "-"
          /\ LoginFailed =>
                /\ \A i \in DOMAIN wire : wire[i].ev # "GET"
                /\ results = <<>>
                /\ report = <<>>)
    /\ [][LoginFailed =>
            /\ run_pc' = "exited"
            /\ wire'[Len(wire')] = [ev |-> "exit", row |-> 0, status |-> 1]
            /\ report' = <<>>]_vars

\* a GET made after a login that succeeded
C36_Witness ==
    /\ settings.token = ""
    /\ \E j, i \in DOMAIN wire :
          /\ j < i
          /\ wire[j].ev = "POST" /\ wire[j].raises = "-"
          /\ wire[i].ev = "GET"
    /\ client.authorization = Bearer("T-token")

\* the process has ended with exit status 1
ExitedAbnormally ==
    /\ run_pc = "exited"
    /\ wire # <<>>
    /\ wire[Len(wire)].ev = "exit"
    /\ wire[Len(wire)].status = 1

\* C37: the verdicts already finalized are preserved on every abnormal end of
\* the batch: when a RuntimeError, FileNotFoundError or ValueError is raised after
\* k rows were resolved, a report holding those k verdicts is written before the
\* process exits.
C37_ReportOnFatalError ==
    (ExitedAbnormally /\ results # <<>>) =>
        /\ report # <<>>
        /\ Len(report[1].rows) = Len(results)
        /\ \A k \in DOMAIN results : report[1].rows[k] = CsvRow(results[k])

====
